---- MODULE Spec2Model ----
(***************************************************************************)
(* A model of the ORCA orchestrator: the JSONL write-ahead event log       *)
(* (crates/event-log), the governance policy engine (crates/policy), the   *)
(* budget manager (crates/budget) and the request pipeline of the          *)
(* orchestrator service (crates/orchestrator).                             *)
(*                                                                         *)
(* Strings are sequences of tokens.  The token "SSN" stands for a          *)
(* substring matching the built-in PII pattern \b\d{3}-\d{2}-\d{4}\b, and  *)
(* every other token for text that does not match it.  Option<T> is the    *)
(* empty sequence (None) or a one-element sequence (Some).  A DashMap is a *)
(* function whose DOMAIN is the set of keys present.  u64 values are       *)
(* scaled down to 0..U64Max.                                               *)
(***************************************************************************)
EXTENDS Integers, Sequences, FiniteSets, TLC

----------------------------------------------------------------------------
(* Bounds of the model *)

\* an RPC that writes is started only while NEXT_ID is at most this
MaxWal == 3
\* the same, in the budget scenarios
MaxWalBudget == 5
\* a policy file is loaded only while NEXT_ID is at most this
MaxLoadId == 1
\* the wall clock runs from 0 to MaxNow
MaxNow == 2
\* stands for u64::MAX
U64Max == 15
\* longest string payload appended in the log-only specification
MaxStr == 1
\* most appends in the log-only specification
MaxAppends == 2
\* concurrent tasks appending to the log
MaxTasks == 2
\* most lines of the log in the restart scenarios
MaxWalRestart == 3
\* the greatest id a request of the streaming scenarios starts appending at
MaxWalStream == 3
\* the longest content put into the blob store
MaxBlob == 2
\* most files under .tmp/ when a put starts
MaxTmp == 1
\* the longest wasm_digest string of a manifest
MaxDigestLen == 3
\* the longest signature string of a manifest
MaxSigLen == 3
\* the invocations made on one PluginRunner
MaxInvokes == 2
\* the most rules in a policy file of the precedence scenarios
MaxRules == 2
\* how many records the log takes in the scenarios with two runs
MaxWalRuns == 4
\* how many ids the captured client calls may take
MaxWalProxy == 4

----------------------------------------------------------------------------
(* Option and map helpers *)

None == << >>
Some(v) == << v >>
IsSome(o) == o # << >>
Unwrap(o) == o[1]

MapInsert(m, k, v) == [x \in (DOMAIN m) \cup {k} |-> IF x = k THEN v ELSE m[x]]

SaturatingSub(a, b) == IF a >= b THEN a - b ELSE 0
SaturatingAdd(a, b) == IF a + b > U64Max THEN U64Max ELSE a + b
WrappingAdd(a, b) == (a + b) % (U64Max + 1)

----------------------------------------------------------------------------
(* crates/event-log: the JSONL file, byte by byte.                         *)
(* A byte of the file is a record with a field ch: "nl" is the newline,    *)
(* "hdr" the text {"id":<id>,"ts_ms":<ts_ms>,"payload": of a line, "obj"   *)
(* the JSON text of an object payload, "q" a double quote, "bs" a          *)
(* backslash, "end" the closing brace, anything else a plain letter.       *)

NL == [ch |-> "nl"]
Hdr(id, ts_ms) == [ch |-> "hdr", id |-> id, ts_ms |-> ts_ms]
Obj(p) == [ch |-> "obj", v |-> p]
Ch(c) == [ch |-> c]

\* the characters a string payload is made of: a letter, a newline, a backslash
StrChars == {"a", "nl", "bs"}

IsStr(p) == "str" \in DOMAIN p

\* serde_json's string escaping: a newline becomes \n, a backslash becomes \\
RECURSIVE EscapeStr(_)
EscapeStr(s) ==
  IF s = << >> THEN << >>
  ELSE LET c == Head(s)
           e == IF c = "nl" THEN << Ch("bs"), Ch("n") >>
                ELSE IF c = "bs" THEN << Ch("bs"), Ch("bs") >>
                ELSE << Ch(c) >>
       IN e \o EscapeStr(Tail(s))

\* serde_json::to_string(&EventRecord { id, ts_ms, payload })
ToJsonLine(id, ts_ms, payload) ==
  << Hdr(id, ts_ms) >>
  \o (IF IsStr(payload)
      THEN << Ch("q") >> \o EscapeStr(payload.str) \o << Ch("q") >>
      ELSE << Obj(payload) >>)
  \o << Ch("end") >>

\* a faulty variant of LogAppend: the characters of a string payload are written
\* as they are, without escaping
LogAppendRaw(file, id, ts_ms, payload) ==
  file \o << Hdr(id, ts_ms) >>
       \o (IF IsStr(payload)
           THEN << Ch("q") >> \o [i \in 1..Len(payload.str) |-> Ch(payload.str[i])]
                \o << Ch("q") >>
           ELSE << Obj(payload) >>)
       \o << Ch("end"), NL >>

\* JsonlEventLog::append: write_all(line), write_all("\n"), flush
LogAppend(file, id, ts_ms, payload) == file \o ToJsonLine(id, ts_ms, payload) \o << NL >>

\* BufRead::lines: split at newlines; an empty last piece is not a line
RECURSIVE SplitLines(_, _, _, _)
SplitLines(f, i, cur, acc) ==
  IF i > Len(f) THEN (IF cur = << >> THEN acc ELSE Append(acc, cur))
  ELSE IF f[i].ch = "nl" THEN SplitLines(f, i + 1, << >>, Append(acc, cur))
  ELSE SplitLines(f, i + 1, Append(cur, f[i]), acc)

\* the inverse of EscapeStr; fails on a raw control character or a bad escape
RECURSIVE UnescapeStr(_, _, _)
UnescapeStr(s, i, acc) ==
  IF i > Len(s) THEN [ok |-> TRUE, v |-> acc]
  ELSE IF s[i].ch = "bs"
       THEN IF i + 1 <= Len(s) /\ s[i + 1].ch \in {"n", "bs"}
            THEN UnescapeStr(s, i + 2,
                             Append(acc, IF s[i + 1].ch = "n" THEN "nl" ELSE "bs"))
            ELSE [ok |-> FALSE, v |-> << >>]
       ELSE IF s[i].ch \in {"nl", "q", "hdr", "obj", "end"}
            THEN [ok |-> FALSE, v |-> << >>]
            ELSE UnescapeStr(s, i + 1, Append(acc, s[i].ch))

\* serde_json::from_str::<EventRecord<T>>(&line)
ParseLine(line) ==
  LET n == Len(line)
      bad == [ok |-> FALSE, rec |-> << >>]
  IN IF n < 3 \/ line[1].ch # "hdr" \/ line[n].ch # "end" THEN bad
     ELSE IF n = 3 /\ line[2].ch = "obj"
          THEN [ok |-> TRUE,
                rec |-> << [id |-> line[1].id, ts_ms |-> line[1].ts_ms,
                            payload |-> line[2].v] >>]
          ELSE IF n >= 4 /\ line[2].ch = "q" /\ line[n - 1].ch = "q"
               THEN LET u == UnescapeStr(SubSeq(line, 3, n - 2), 1, << >>)
                    IN IF u.ok
                       THEN [ok |-> TRUE,
                             rec |-> << [id |-> line[1].id, ts_ms |-> line[1].ts_ms,
                                         payload |-> [str |-> u.v]] >>]
                       ELSE bad
               ELSE bad

\* the loop of read_range over the lines: skip empty lines, fail on the first
\* line that does not parse, keep the records with start <= id < end
RECURSIVE ReadLines(_, _, _, _, _)
ReadLines(lines, i, start, end, out) ==
  IF i > Len(lines) THEN [ok |-> TRUE, recs |-> out]
  ELSE IF lines[i] = << >> THEN ReadLines(lines, i + 1, start, end, out)
  ELSE LET p == ParseLine(lines[i])
       IN IF ~p.ok THEN [ok |-> FALSE, recs |-> << >>]
          ELSE LET rec == p.rec[1]
               IN IF rec.id >= start /\ rec.id < end
                  THEN ReadLines(lines, i + 1, start, end, Append(out, rec))
                  ELSE ReadLines(lines, i + 1, start, end, out)

\* JsonlEventLog::read_range(start, end)
ReadRange(file, start, end) ==
  ReadLines(SplitLines(file, 1, << >>, << >>), 1, start, end, << >>)

----------------------------------------------------------------------------
(* crates/budget: Manager *)

\* BudgetConfig { max_tokens, max_cost_micros }
BudgetConfig(max_tokens, max_cost_micros) ==
  [max_tokens |-> max_tokens, max_cost_micros |-> max_cost_micros]

\* BudgetConfig::default()
BudgetConfigDefault == BudgetConfig(None, None)

\* Manager::new: the configuration and fresh counters
ManagerNew(cfg) == [cfg |-> cfg, tokens |-> 0, cost_micros |-> 0]

\* Manager::add_usage: AtomicU64::fetch_add on each counter that gets a non-zero amount
AddUsage(mgr, tokens, cost_micros) ==
  [mgr EXCEPT !.tokens = IF tokens > 0 THEN WrappingAdd(@, tokens) ELSE @,
              !.cost_micros = IF cost_micros > 0 THEN WrappingAdd(@, cost_micros) ELSE @]

\* the significand of an f64 (53 bits for the 64 of a u64), scaled like U64Max:
\* the integers up to 2^F64_MANTISSA_DIGITS convert exactly, larger ones are rounded
F64_MANTISSA_DIGITS == 3

RECURSIVE Pow2(_)
Pow2(k) == IF k = 0 THEN 1 ELSE 2 * Pow2(k - 1)

\* the spacing of the f64 values around the integer n
RECURSIVE Spacing(_, _)
Spacing(n, step) ==
  IF n < Pow2(F64_MANTISSA_DIGITS) * step THEN step ELSE Spacing(n, 2 * step)

\* a faulty variant of AsF64: the conversion is exact
AsF64Exact(n) == n

\* `n as f64`: the nearest value of the significand's width, ties to the even one
AsF64(n) ==
  LET step == Spacing(n, 1)
      lo == (n \div step) * step
  IN IF 2 * (n - lo) < step THEN lo
     ELSE IF 2 * (n - lo) > step THEN lo + step
     ELSE IF (lo \div step) % 2 = 0 THEN lo ELSE lo + step

\* the ratio (count as f64) / (limit as f64) compared with num/den; a missing or
\* zero limit is ratio 0. The quotient of two f64 values is rounded without
\* crossing 1.0, and is taken as exact against 0.90 and 0.80.
RatioGt(count, limit, num, den) ==
  IF IsSome(limit) /\ Unwrap(limit) > 0
  THEN AsF64(count) * den > num * AsF64(Unwrap(limit))
  ELSE 0 > num
RatioGe(count, limit, num, den) ==
  IF IsSome(limit) /\ Unwrap(limit) > 0
  THEN AsF64(count) * den >= num * AsF64(Unwrap(limit))
  ELSE 0 >= num

\* a faulty variant of Status: the ratio is taken for a percentage, so that
\* Exceeded starts past 100 times the limit
StatusPercent(mgr) ==
  LET gt(n, d) == \/ RatioGt(mgr.tokens, mgr.cfg.max_tokens, n, d)
                  \/ RatioGt(mgr.cost_micros, mgr.cfg.max_cost_micros, n, d)
      ge(n, d) == \/ RatioGe(mgr.tokens, mgr.cfg.max_tokens, n, d)
                  \/ RatioGe(mgr.cost_micros, mgr.cfg.max_cost_micros, n, d)
  IN IF gt(100, 1) THEN "Exceeded"
     ELSE IF ge(90, 100) THEN "Warning90"
     ELSE IF ge(80, 100) THEN "Warning80"
     ELSE "Within"

\* Manager::status: the state of max(token_ratio, cost_ratio)
Status(mgr) ==
  LET gt(n, d) == \/ RatioGt(mgr.tokens, mgr.cfg.max_tokens, n, d)
                  \/ RatioGt(mgr.cost_micros, mgr.cfg.max_cost_micros, n, d)
      ge(n, d) == \/ RatioGe(mgr.tokens, mgr.cfg.max_tokens, n, d)
                  \/ RatioGe(mgr.cost_micros, mgr.cfg.max_cost_micros, n, d)
  IN IF gt(1, 1) THEN "Exceeded"
     ELSE IF ge(90, 100) THEN "Warning90"
     ELSE IF ge(80, 100) THEN "Warning80"
     ELSE "Within"

----------------------------------------------------------------------------
(* crates/policy: Engine *)

SSN == "SSN"
REDACTED == "[REDACTED]"

\* Regex::is_match of the built-in PII pattern
ContainsPii(s) == \E i \in 1..Len(s) : s[i] = SSN

\* Regex::replace_all(payload, "[REDACTED]")
ReplaceAllPii(s) == [i \in 1..Len(s) |-> IF s[i] = SSN THEN REDACTED ELSE s[i]]

\* str::contains on the tokens of a condition
StrContains(s, kw) == \E i \in 1..Len(s) : s[i] = kw

\* str::trim of a name or a list entry
Trim(s) == IF s = " " THEN "" ELSE s

\* str::to_lowercase of a tool name
ToLowercase(s) ==
  CASE s = "Calc" -> "calc"
    [] s = "Shell" -> "shell"
    [] OTHER -> s

\* Regex::new on the pattern of a transform "regex:<pattern>"
RegexCompiles(t) == t # "regex:("
IsRegexTransform(t) == t \in {"regex:(", "regex:x"}

Decision(kind, payload, reason, rule_name, action) ==
  [kind |-> kind, payload |-> payload, reason |-> reason,
   rule_name |-> rule_name, action |-> action]

AllowDecision == Decision("Allow", None, None, None, None)

\* Engine::new: no rules, no allowlist, nothing loaded
EngineNew == [rules |-> << >>, tool_allowlist |-> None, policy_loaded |-> FALSE]

\* the duplicate check of load_from_yaml_path over the trimmed, lowercased entries
AllowlistOk(v) ==
  /\ \A i \in 1..Len(v) : ToLowercase(Trim(v[i])) # ""
  /\ \A i, j \in 1..Len(v) : i # j => ToLowercase(Trim(v[i])) # ToLowercase(Trim(v[j]))

RuleOk(r) ==
  /\ Trim(r.name) # ""
  /\ r.when # << >>
  /\ r.action \in {"deny", "modify", "allow_but_flag"}
  /\ (IsSome(r.transform) /\ IsRegexTransform(Unwrap(r.transform))
        => RegexCompiles(Unwrap(r.transform)))

\* a faulty variant of LoadFromYaml: a rejected load leaves the engine unloaded
LoadFromYamlUnloads(engine, pf) ==
  IF /\ pf.yaml_ok
     /\ (IsSome(pf.tool_allowlist) => AllowlistOk(Unwrap(pf.tool_allowlist)))
     /\ \A i \in 1..Len(pf.rules) : RuleOk(pf.rules[i])
  THEN [ok |-> TRUE,
        engine |-> [rules |-> pf.rules,
                    tool_allowlist |->
                      IF IsSome(pf.tool_allowlist)
                      THEN Some({ToLowercase(Trim(Unwrap(pf.tool_allowlist)[i])) :
                                   i \in 1..Len(Unwrap(pf.tool_allowlist))})
                      ELSE None,
                    policy_loaded |-> TRUE]]
  ELSE [ok |-> FALSE, engine |-> EngineNew]

\* Engine::load_from_yaml_path: the engine changes only when every check passes
LoadFromYaml(engine, pf) ==
  IF /\ pf.yaml_ok
     /\ (IsSome(pf.tool_allowlist) => AllowlistOk(Unwrap(pf.tool_allowlist)))
     /\ \A i \in 1..Len(pf.rules) : RuleOk(pf.rules[i])
  THEN [ok |-> TRUE,
        engine |-> [rules |-> pf.rules,
                    tool_allowlist |->
                      IF IsSome(pf.tool_allowlist)
                      THEN LET v == Unwrap(pf.tool_allowlist)
                           IN Some({ToLowercase(Trim(v[i])) : i \in 1..Len(v)})
                      ELSE None,
                    policy_loaded |-> TRUE]]
  ELSE [ok |-> FALSE, engine |-> engine]

\* Engine::scan_and_redact
ScanAndRedact(envelope, rule_name) ==
  LET payload == envelope.payload_json.text
      redacted == ReplaceAllPii(payload)
  IN IF redacted # payload
     THEN Decision("Modify",
                   Some([envelope EXCEPT !.payload_json.text = redacted]),
                   Some(<< "PII redacted" >>), Some(rule_name), Some("modify"))
     ELSE AllowDecision

\* a faulty variant of CheckToolAllowlist: the allowlist is not looked at, a tool
\* is denied only by a deny rule on ToolInvocation
CheckToolAllowlistRulesOnly(engine, envelope) ==
  IF /\ IsSome(envelope.payload_json.tool)
     /\ \E i \in 1..Len(engine.rules) :
          engine.rules[i].action = "deny" /\ StrContains(engine.rules[i].when, "ToolInvocation")
  THEN Some(Decision("Deny", None, Some(<< "external tool blocked by default" >>),
                     Some("Default-Deny-All-External-Tools"), Some("deny")))
  ELSE None

\* Engine::check_tool_allowlist
CheckToolAllowlist(engine, envelope) ==
  LET tool_name == envelope.payload_json.tool
  IN IF ~IsSome(tool_name) THEN None
     ELSE LET tn == ToLowercase(Unwrap(tool_name))
          IN IF IsSome(engine.tool_allowlist)
             THEN IF tn \notin Unwrap(engine.tool_allowlist)
                  THEN Some(Decision("Deny", None,
                                     Some(<< "tool '", tn, "' not allowed" >>),
                                     Some("tool_allowlist"), Some("deny")))
                  ELSE None
             ELSE IF \E i \in 1..Len(engine.rules) :
                        /\ engine.rules[i].action = "deny"
                        /\ StrContains(engine.rules[i].when, "ToolInvocation")
                  THEN Some(Decision("Deny", None,
                                     Some(<< "external tool '", tn, "' blocked by default" >>),
                                     Some("Default-Deny-All-External-Tools"), Some("deny")))
                  ELSE None

\* the match arms of the rule interpreter: the decision of rule r, if it matches
RuleMatch(r, envelope) ==
  IF r.action = "deny" /\ StrContains(r.when, "ToolInvocation")
  THEN Some(Decision("Deny", None, r.message, Some(r.name), Some(r.action)))
  ELSE IF r.action = "allow_but_flag" /\ StrContains(r.when, "LLMPrompt")
  THEN Some(Decision("Allow", None, r.message, Some(r.name), Some(r.action)))
  ELSE IF r.action = "modify" /\ StrContains(r.when, "pii_detect")
  THEN LET d2 == ScanAndRedact(envelope, r.name)
       IN Some([d2 EXCEPT !.reason = IF d2.reason = None THEN r.message ELSE @,
                          !.action = Some(r.action)])
  ELSE None

\* the vector `matches`: (priority, index, decision) of every matching rule, in file order
RECURSIVE Matches(_, _, _)
Matches(rules, envelope, idx) ==
  IF idx > Len(rules) THEN << >>
  ELSE LET m == RuleMatch(rules[idx], envelope)
       IN (IF IsSome(m)
           THEN << [p |-> rules[idx].priority, idx |-> idx, d |-> Unwrap(m)] >>
           ELSE << >>)
          \o Matches(rules, envelope, idx + 1)

Severity(kind) ==
  CASE kind = "Deny" -> 3
    [] kind = "Modify" -> 2
    [] OTHER -> 1

\* a faulty variant of SelectBest: on a full tie the last match is kept
RECURSIVE SelectBestLast(_, _, _, _)
SelectBestLast(ms, i, max_pri, best) ==
  IF i > Len(ms) THEN best
  ELSE IF ms[i].p # max_pri THEN SelectBestLast(ms, i + 1, max_pri, best)
  ELSE SelectBestLast(ms, i + 1, max_pri,
                      IF best = None
                         \/ Severity(ms[i].d.kind) >= Severity(Unwrap(best).d.kind)
                      THEN Some(ms[i]) ELSE best)

\* the loop that selects `best` among the matches of the highest priority
RECURSIVE SelectBest(_, _, _, _)
SelectBest(ms, i, max_pri, best) ==
  IF i > Len(ms) THEN best
  ELSE IF ms[i].p # max_pri THEN SelectBest(ms, i + 1, max_pri, best)
  ELSE LET better == IF best = None THEN TRUE
                     ELSE Severity(ms[i].d.kind) > Severity(Unwrap(best).d.kind)
       IN SelectBest(ms, i + 1, max_pri, IF better THEN Some(ms[i]) ELSE best)

\* a faulty variant of FailClosed: an engine without a policy goes on to its rules
FailOpen(engine) == FALSE

\* the fail-closed test of apply_rules_then_redact: if !self.policy_loaded
FailClosed(engine) == ~engine.policy_loaded

\* Engine::apply_rules_then_redact
ApplyRulesThenRedact(engine, envelope) ==
  LET d == ScanAndRedact(envelope, "builtin_redact_pii")
  IN IF d.kind = "Modify" THEN d
     ELSE IF FailClosed(engine)
     THEN Decision("Deny", None, Some(<< "no valid policy loaded" >>),
                   Some("fail_closed_default"), Some("deny"))
     ELSE LET dec == CheckToolAllowlist(engine, envelope)
          IN IF IsSome(dec) THEN Unwrap(dec)
             ELSE LET ms == Matches(engine.rules, envelope, 1)
                  IN IF ms = << >> THEN AllowDecision
                     ELSE LET max_pri == CHOOSE p \in {ms[i].p : i \in 1..Len(ms)} :
                                           \A j \in 1..Len(ms) : ms[j].p <= p
                              best == SelectBest(ms, 1, max_pri, None)
                          IN IF IsSome(best) THEN Unwrap(best).d ELSE AllowDecision

\* Engine::pre_start_run and Engine::pre_submit_task
PreStartRun(engine, envelope) == ApplyRulesThenRedact(engine, envelope)
PreSubmitTask(engine, envelope) == ApplyRulesThenRedact(engine, envelope)

\* Engine::post_submit_task: the baseline always allows
PostSubmitTask(engine, result) == AllowDecision

----------------------------------------------------------------------------
(* crates/orchestrator: the service *)

VARIABLES
  wal,                  \* the bytes of the JSONL file behind `log`
  NEXT_ID,              \* orca_core::ids::NEXT_ID
  now,                  \* the wall clock read by now_ms()
  environ,              \* the process environment and the with_budget configuration
  seen_ids,             \* OrchestratorService::seen_ids
  last_event_id_by_run, \* RunIndex::last_event_id_by_run
  usage_by_run,         \* RunIndex::usage_by_run
  usage_by_run_agent,   \* RunIndex::usage_by_run_agent
  run_start_ts_by_run,  \* RunIndex::run_start_ts_by_run
  policy,               \* OrchestratorService::policy
  budget,               \* OrchestratorService::budget
  budgets_by_run,       \* OrchestratorService::budgets_by_run
  req,                  \* the request last served, until its response is delivered
  resp,                 \* the response to req
  writers,              \* the calls of JsonlEventLog::append in progress, by task
  files,                \* the files under the root of the blob store, by path
  put,                  \* the call of BlobStore::put_reader in progress, if any
  epoch,                \* the epoch of the Engine a PluginRunner and its clones share
  stores,               \* the Store of each invocation of invoke_i32_2, by invocation
  timers,               \* the timeout thread of each invocation, by invocation
  calls                 \* the concurrent calls in progress, by task

vars == << wal, NEXT_ID, now, environ, seen_ids, last_event_id_by_run, usage_by_run,
           usage_by_run_agent, run_start_ts_by_run, policy, budget, budgets_by_run,
           req, resp, writers, files, put,
                  epoch, stores, timers, calls >>

\* the state a handler reads and writes, threaded through its steps;
\* k counts the appends attempted so far and last_ok is the result of the last one
Service ==
  [wal |-> wal, NEXT_ID |-> NEXT_ID, seen_ids |-> seen_ids,
   usage_by_run |-> usage_by_run, usage_by_run_agent |-> usage_by_run_agent,
   run_start_ts_by_run |-> run_start_ts_by_run,
   budget |-> budget, budgets_by_run |-> budgets_by_run,
   k |-> 0, last_ok |-> TRUE]

\* most appends one handler can attempt
MaxIo == 8
\* how the k-th append of a call ends is io[k]: "ok"; "fail", an error before
\* anything is written (open or to_string fails); "torn", an error of the second
\* write_all, after the line was written without its newline
IoOutcomes == {"ok", "fail", "torn"}
IoOk == [k \in 1..MaxIo |-> "ok"]

\* self.log.append(next_monotonic_id(), now_ms(), &evt): the id is taken before
\* the append is attempted
DoAppend(s, io, evt) ==
  LET k == s.k + 1
  IN [s EXCEPT !.k = k,
               !.NEXT_ID = WrappingAdd(@, 1),
               !.wal = IF io[k] = "ok" THEN LogAppend(@, s.NEXT_ID, now, evt)
                       ELSE IF io[k] = "torn" THEN @ \o ToJsonLine(s.NEXT_ID, now, evt)
                       ELSE @,
               !.last_ok = (io[k] = "ok")]

\* OrchestratorService::retry around an append: up to `rem` attempts
RECURSIVE Retry(_, _, _, _)
Retry(s, io, evt, rem) ==
  LET s1 == DoAppend(s, io, evt)
  IN IF s1.last_ok THEN s1
     ELSE IF rem - 1 = 0 THEN s1
     ELSE Retry(s1, io, evt, rem - 1)

\* a faulty variant of RejectIfExpiredOrVersion: the version is checked first
RejectVersionFirst(env) ==
  IF env.protocol_version # 1 THEN "FailedPrecondition"
  ELSE IF env.timeout_ms > 0 /\ SaturatingSub(now, env.ts_ms) > env.timeout_ms
  THEN "DeadlineExceeded"
  ELSE "Ok"

\* a faulty variant of RejectIfExpiredOrVersion: the version is not looked at
RejectIfExpired(env) ==
  IF env.timeout_ms > 0 /\ SaturatingSub(now, env.ts_ms) > env.timeout_ms
  THEN "DeadlineExceeded"
  ELSE "Ok"

\* OrchestratorService::reject_if_expired_or_version
RejectIfExpiredOrVersion(env) ==
  IF env.timeout_ms > 0 /\ SaturatingSub(now, env.ts_ms) > env.timeout_ms
  THEN "DeadlineExceeded"
  ELSE IF env.protocol_version # 1 THEN "FailedPrecondition"
  ELSE "Ok"

\* a faulty variant of CheckAuth: a request without the header is let through
CheckAuthIfPresent(authorization) ==
  IF IsSome(environ.AGENT_AUTH_TOKEN) /\ Unwrap(environ.AGENT_AUTH_TOKEN) # ""
  THEN authorization = None \/ authorization = environ.AGENT_AUTH_TOKEN
  ELSE TRUE

\* OrchestratorService::check_auth: TRUE iff the request is let through
CheckAuth(authorization) ==
  IF IsSome(environ.AGENT_AUTH_TOKEN) /\ Unwrap(environ.AGENT_AUTH_TOKEN) # ""
  THEN authorization = environ.AGENT_AUTH_TOKEN
  ELSE TRUE

\* OrchestratorService::redact_event_payload
RedactEventPayload(payload) ==
  IF IsSome(payload.envelope)
  THEN LET decision == PreSubmitTask(policy, Unwrap(payload.envelope))
       IN IF IsSome(decision.payload)
          THEN [payload EXCEPT !.envelope = decision.payload]
          ELSE payload
  ELSE payload

\* the `outcome` string of append_policy_audit
AuditOutcome(d) ==
  IF d.kind = "Deny" THEN "denied"
  ELSE IF d.kind = "Modify" THEN "modified"
  ELSE IF d.action = Some("allow_but_flag") THEN "allowed_flagged"
  ELSE "allowed"

\* a faulty variant of ShouldEmit: a denial is not audited
ShouldEmitNoDeny(d) == d.kind = "Modify" \/ d.action = Some("allow_but_flag")

\* a faulty variant of ShouldEmit: only the kind of the decision is looked at, so
\* that a flagged Allow is not audited
ShouldEmitKindOnly(d) == d.kind \in {"Deny", "Modify"}

\* `should_emit` of append_policy_audit
ShouldEmit(d) == d.kind \in {"Deny", "Modify"} \/ d.action = Some("allow_but_flag")

\* OrchestratorService::append_policy_audit: the result of the append is dropped
AppendPolicyAudit(s, io, phase, run_id, workflow_id, env, d) ==
  IF ~ShouldEmit(d) THEN s
  ELSE DoAppend(s, io,
         [event |-> "policy_audit", phase |-> phase, run_id |-> run_id,
          workflow_id |-> workflow_id, envelope_id |-> env.id, agent |-> env.agent,
          envelope_kind |-> env.kind, rule_name |-> d.rule_name,
          action |-> d.action, reason |-> d.reason, outcome |-> AuditOutcome(d)])

\* a handler returns: the state it leaves and the gRPC status
Return(s, code) == [s |-> s, code |-> code]

\* `.map_err(internal_io)?` followed by Ok(..): the status after the last append
OkOrInternal(s) == Return(s, IF s.last_ok THEN "Ok" ELSE "Internal")

\* elapsed_ms / duration_ms: now_ms() less the start of the run, 0 without one
ElapsedMs(s, run_id) ==
  IF run_id \in DOMAIN s.run_start_ts_by_run
  THEN SaturatingSub(now, s.run_start_ts_by_run[run_id]) ELSE 0

\* the `breakdown` vector of the run_summary event
Breakdown(s, run_id) ==
  {[agent |-> key[2], tokens |-> s.usage_by_run_agent[key][1],
    cost_micros |-> s.usage_by_run_agent[key][2]] :
   key \in {x \in DOMAIN s.usage_by_run_agent : x[1] = run_id}}

\* submit_task, the end-of-run summary: an agent_result appends run_summary
SubmitSummary(s, r, env, io) ==
  IF env.kind = "agent_result"
  THEN OkOrInternal(DoAppend(s, io,
         [event |-> "run_summary", run_id |-> Some(r.run_id),
          tokens |-> s.usage_by_run[r.run_id][1],
          cost_micros |-> s.usage_by_run[r.run_id][2],
          by_agent |-> Breakdown(s, r.run_id),
          duration_ms |-> ElapsedMs(s, r.run_id)]))
  ELSE Return(s, "Ok")

\* submit_task, the post-submit hook once its decision `post` is known
SubmitPostDecided(s, r, env, post, io) ==
  IF env.timeout_ms > 0 /\ post.kind = "Deny"
  THEN Return(AppendPolicyAudit(s, io, "post_submit_task", Some(r.run_id), None, env, post),
              "PermissionDenied")
  ELSE SubmitSummary(IF env.timeout_ms > 0
                     THEN AppendPolicyAudit(s, io, "post_submit_task", Some(r.run_id), None,
                                            env, post)
                     ELSE s,
                     r, env, io)

\* submit_task, `if env.timeout_ms > 0 { .. post_submit_task .. }`
SubmitPost(s, r, env, io) ==
  SubmitPostDecided(s, r, env, PostSubmitTask(policy, "stub"), io)

\* submit_task, after the retried append of task_enqueued
SubmitEnqueued(s, r, env, io) ==
  IF ~s.last_ok THEN Return(s, "Internal") ELSE SubmitPost(s, r, env, io)

\* submit_task, the id is recorded as seen and task_enqueued is appended with retries
SubmitEnqueue(s, r, env, io) ==
  SubmitEnqueued(Retry([s EXCEPT !.seen_ids = @ \cup {env.id}], io,
                       RedactEventPayload([event |-> "task_enqueued",
                                           run_id |-> Some(r.run_id),
                                           envelope |-> Some(env)]),
                       3),
                 r, env, io)

\* submit_task, after the append of usage_update
SubmitUsageAppended(s, r, env, io) ==
  IF ~s.last_ok THEN Return(s, "Internal") ELSE SubmitEnqueue(s, r, env, io)

\* the entry of map m at key, or (0, 0): entry(key).or_insert((0, 0))
OrInsertZero(m, key) == IF key \in DOMAIN m THEN m[key] ELSE << 0, 0 >>

\* submit_task, the per-run and per-agent usage totals
UsageTotals(s, r, env, tokens_inc, cost_inc) ==
  [s EXCEPT !.usage_by_run =
               MapInsert(@, r.run_id,
                         << SaturatingAdd(OrInsertZero(@, r.run_id)[1], tokens_inc),
                            SaturatingAdd(OrInsertZero(@, r.run_id)[2], cost_inc) >>),
            !.usage_by_run_agent =
               MapInsert(@, << r.run_id, env.agent >>,
                         << SaturatingAdd(OrInsertZero(@, << r.run_id, env.agent >>)[1],
                                          tokens_inc),
                            SaturatingAdd(OrInsertZero(@, << r.run_id, env.agent >>)[2],
                                          cost_inc) >>)]

\* submit_task, the append of usage_update with the totals just written
UsageUpdate(s, r, io) ==
  DoAppend(s, io,
    [event |-> "usage_update", run_id |-> Some(r.run_id),
     tokens |-> s.usage_by_run[r.run_id][1],
     cost_micros |-> s.usage_by_run[r.run_id][2],
     elapsed_ms |-> ElapsedMs(s, r.run_id)])

\* the tail of submit_task from the usage totals on
SubmitUsage(s, r, env, tokens_inc, cost_inc, io) ==
  SubmitUsageAppended(UsageUpdate(UsageTotals(s, r, env, tokens_inc, cost_inc), r, io),
                      r, env, io)

\* tokens_inc of submit_task: the usage hint, 1 by default
TokensInc(env) ==
  IF IsSome(env.usage) /\ Unwrap(env.usage).tokens > 0 THEN Unwrap(env.usage).tokens ELSE 1

\* cost_inc of submit_task: the usage hint, 0 by default
CostInc(env) ==
  IF IsSome(env.usage) /\ Unwrap(env.usage).cost_micros > 0
  THEN Unwrap(env.usage).cost_micros ELSE 0

\* the manager submit_task charges: the one of the run if it has one, else the shared one
BudgetOf(s, r) ==
  IF r.run_id \in DOMAIN s.budgets_by_run THEN s.budgets_by_run[r.run_id] ELSE s.budget

\* mgr.add_usage(tokens_inc, cost_inc) on that manager
BudgetAdd(s, r, env) ==
  IF r.run_id \in DOMAIN s.budgets_by_run
  THEN [s EXCEPT !.budgets_by_run =
                    MapInsert(@, r.run_id, AddUsage(@[r.run_id], TokensInc(env), CostInc(env)))]
  ELSE [s EXCEPT !.budget = AddUsage(@, TokensInc(env), CostInc(env))]

\* `match status`: the event appended for the state of the budget
BudgetEvent(s, r, status, io) ==
  IF status = "Exceeded"
  THEN DoAppend(s, io, [event |-> "budget_exceeded", run_id |-> Some(r.run_id)])
  ELSE IF status \in {"Warning90", "Warning80"}
  THEN DoAppend(s, io, [event |-> "budget_warning", run_id |-> Some(r.run_id),
                        level |-> IF status = "Warning90" THEN "90" ELSE "80"])
  ELSE s

\* submit_task, after the event of the budget state was appended
SubmitBudgetChecked(s, r, env, status, io) ==
  IF ~s.last_ok THEN Return(s, "Internal")
  ELSE IF status = "Exceeded" THEN Return(s, "ResourceExhausted")
  ELSE SubmitUsage(s, r, env, TokensInc(env), CostInc(env), io)

\* submit_task, `let status = mgr.status()` and what follows from it
SubmitBudgetStatus(s, r, env, status, io) ==
  SubmitBudgetChecked(BudgetEvent(s, r, status, io), r, env, status, io)

\* submit_task, after the usage was added to the manager
SubmitBudgetAdded(s, r, env, io) ==
  SubmitBudgetStatus(s, r, env, Status(BudgetOf(s, r)), io)

\* the budget step of submit_task, on the per-run manager or on the shared one
SubmitBudget(s, r, env, io) == SubmitBudgetAdded(BudgetAdd(s, r, env), r, env, io)

\* a faulty variant of SeenContains: no id is ever found in the set
SeenContainsNever(s, id) == FALSE

\* the duplicate check of submit_task: self.seen_ids.contains(&env.id)
SeenContains(s, id) == id \in s.seen_ids

\* submit_task, once the pre-submit decision is known: the audit, then the denial
\* or the budget step on the envelope the policy left
SubmitDecided(s, r, env0, decision, io) ==
  IF decision.kind = "Deny"
  THEN Return(AppendPolicyAudit(s, io, "pre_submit_task", Some(r.run_id), None, env0,
                                decision),
              "PermissionDenied")
  ELSE SubmitBudget([AppendPolicyAudit(s, io, "pre_submit_task", Some(r.run_id), None,
                                       env0, decision)
                     EXCEPT !.last_ok = TRUE],
                    r,
                    IF decision.kind = "Modify" /\ IsSome(decision.payload)
                    THEN Unwrap(decision.payload) ELSE env0,
                    io)

\* submit_task, once the verdict chk of reject_if_expired_or_version is known
SubmitChecked(s, r, env0, chk, io) ==
  IF chk # "Ok" THEN Return(s, chk)
  ELSE IF SeenContains(s, env0.id) THEN Return(s, "Ok")
  ELSE SubmitDecided(s, r, env0, PreSubmitTask(policy, env0), io)

\* submit_task on the envelope env0 of an authenticated request
SubmitEnvelope(s, r, env0, io) ==
  SubmitChecked(s, r, env0, RejectIfExpiredOrVersion(env0), io)

\* Orchestrator::submit_task
SubmitTask(s, r, io) ==
  IF ~CheckAuth(r.authorization) THEN Return(s, "Unauthenticated")
  ELSE IF ~IsSome(r.task) THEN Return(s, "InvalidArgument")
  ELSE SubmitEnvelope(s, r, Unwrap(r.task), io)

\* the budget configuration of start_run: a limit of 0 in the request means none,
\* and without a budget in the request the limits come from the environment
StartRunConfig(r) ==
  IF IsSome(r.budget)
  THEN BudgetConfig(IF Unwrap(r.budget).max_tokens = 0
                    THEN None ELSE Some(Unwrap(r.budget).max_tokens),
                    IF Unwrap(r.budget).max_cost_micros = 0
                    THEN None ELSE Some(Unwrap(r.budget).max_cost_micros))
  ELSE BudgetConfig(environ.ORCA_MAX_TOKENS, environ.ORCA_MAX_COST_MICROS)

\* the per-run budget step of start_run
StartRunBudget(s, r) ==
  IF \/ IsSome(r.budget)
     \/ IsSome(environ.ORCA_MAX_TOKENS)
     \/ IsSome(environ.ORCA_MAX_COST_MICROS)
  THEN [s EXCEPT !.budgets_by_run = MapInsert(@, r.workflow_id, ManagerNew(StartRunConfig(r)))]
  ELSE s

\* start_run, the budget of the run and the retried append of start_run
StartRunAppend(s, r, initial_task, io) ==
  OkOrInternal(Retry([StartRunBudget(s, r)
                      EXCEPT !.run_start_ts_by_run = MapInsert(@, r.workflow_id, now)],
                     io,
                     RedactEventPayload([event |-> "start_run",
                                         workflow_id |-> Some(r.workflow_id),
                                         envelope |-> initial_task]),
                     3))

\* start_run, once the pre-start decision on the initial task is known
StartRunDecided(s, r, env, decision, io) ==
  IF decision.kind = "Deny"
  THEN Return([AppendPolicyAudit(s, io, "pre_start_run", None, Some(r.workflow_id), env,
                                 decision)
               EXCEPT !.last_ok = TRUE],
              "PermissionDenied")
  ELSE StartRunAppend([AppendPolicyAudit(s, io, "pre_start_run", None, Some(r.workflow_id),
                                         env, decision)
                       EXCEPT !.last_ok = TRUE],
                      r,
                      IF decision.kind = "Modify" /\ IsSome(decision.payload)
                      THEN decision.payload ELSE Some(env),
                      io)

\* start_run, once the verdict chk on the initial task is known
StartRunChecked(s, r, env, chk, io) ==
  IF chk # "Ok" THEN Return(s, chk)
  ELSE StartRunDecided(s, r, env, PreStartRun(policy, env), io)

\* Orchestrator::start_run
StartRun(s, r, io) ==
  IF ~CheckAuth(r.authorization) THEN Return(s, "Unauthenticated")
  ELSE IF IsSome(r.initial_task)
  THEN StartRunChecked(s, r, Unwrap(r.initial_task),
                       RejectIfExpiredOrVersion(Unwrap(r.initial_task)), io)
  ELSE StartRunAppend(s, r, None, io)

\* p.get(field).and_then(|v| v.as_str()): the string at a field of a JSON payload
GetStr(p, field) ==
  IF field \in DOMAIN p /\ IsSome(p[field]) THEN p[field] ELSE None

\* the Envelope the producer of stream_events sends for a record
StreamedEnvelope(rec) ==
  [kind |-> IF "event" \in DOMAIN rec.payload THEN rec.payload.event ELSE "event",
   payload_json |-> rec.payload, ts_ms |-> rec.ts_ms]

\* a faulty variant of StreamLoop: the limit is tested with > instead of >=
RECURSIVE StreamLoopOffByOne(_, _, _, _, _)
StreamLoopOffByOne(recs, i, r, sent, out) ==
  IF i > Len(recs) THEN out
  ELSE IF r.since_ts_ms > 0 /\ recs[i].ts_ms < r.since_ts_ms
       THEN StreamLoopOffByOne(recs, i + 1, r, sent, out)
  ELSE IF r.max_events > 0 /\ sent > r.max_events THEN out
  ELSE IF ~(\/ GetStr(recs[i].payload, "run_id") = Some(r.run_id)
            \/ GetStr(recs[i].payload, "workflow_id") = Some(r.run_id))
       THEN StreamLoopOffByOne(recs, i + 1, r, sent, out)
  ELSE StreamLoopOffByOne(recs, i + 1, r, sent + 1, Append(out, StreamedEnvelope(recs[i])))

\* the producer task of stream_events: the envelopes it sends, in order
RECURSIVE StreamLoop(_, _, _, _, _)
StreamLoop(recs, i, r, sent, out) ==
  IF i > Len(recs) THEN out
  ELSE IF r.since_ts_ms > 0 /\ recs[i].ts_ms < r.since_ts_ms
       THEN StreamLoop(recs, i + 1, r, sent, out)
  ELSE IF r.max_events > 0 /\ sent >= r.max_events THEN out
  ELSE IF ~(\/ GetStr(recs[i].payload, "run_id") = Some(r.run_id)
            \/ GetStr(recs[i].payload, "workflow_id") = Some(r.run_id))
       THEN StreamLoop(recs, i + 1, r, sent, out)
  ELSE StreamLoop(recs, i + 1, r, sent + 1, Append(out, StreamedEnvelope(recs[i])))

\* the producer task once read_range has returned `read`: the envelopes sent, or
\* the one error item
StreamProducer(read, r) ==
  IF read.ok THEN [ok |-> TRUE, sent |-> StreamLoop(read.recs, 1, r, 0, << >>)]
  ELSE [ok |-> FALSE, sent |-> << >>]

\* Orchestrator::stream_events: the producer reads the log once, with
\* read_range(start_event_id, u64::MAX)
StreamEvents(s, r, io) ==
  IF ~CheckAuth(r.authorization) THEN Return(s, "Unauthenticated")
  ELSE [s |-> s, code |-> "Ok",
        events |-> StreamProducer(ReadRange(s.wal, r.start_event_id, U64Max), r)]

\* Orchestrator::fetch_result
FetchResult(s, r, io) ==
  IF ~CheckAuth(r.authorization) THEN Return(s, "Unauthenticated") ELSE Return(s, "Ok")

----------------------------------------------------------------------------
(* The inputs *)

EnvIds == {"e1", "e2"}
Headers == {None, Some("tok"), Some("bad")}

\* payload_json: its text and the tool it names, if any
CleanPayload == [text |-> << "w" >>, tool |-> None]
PiiPayload == [text |-> << "My SSN is", SSN >>, tool |-> None]
ToolPayload == [text |-> << "w" >>, tool |-> Some("Shell")]

\* orca_v1::Envelope (parent_id and trace_id are carried along unread and left out)
Envelope(id, kind, payload_json, timeout_ms, protocol_version, usage) ==
  [id |-> id, agent |-> "A", kind |-> kind, payload_json |-> payload_json,
   timeout_ms |-> timeout_ms, protocol_version |-> protocol_version, ts_ms |-> 0,
   usage |-> usage]

\* the task envelopes of the pipeline: plain, with PII, naming a tool, of a version
\* that is not supported, and with a time to live
Envelopes ==
  {Envelope("e1", "agent_task", p, 0, 1, None) : p \in {CleanPayload, PiiPayload, ToolPayload}}
  \cup {Envelope("e1", "agent_task", CleanPayload, t, 2, None) : t \in {0, 1}}
  \cup {Envelope("e2", "agent_task", p, 1, 1, None) : p \in {CleanPayload, PiiPayload}}

\* the envelopes of the budget scenarios: a task that states no usage and a result
\* that reports some
BudgetEnvelopes ==
  {Envelope(id, "agent_task", CleanPayload, 0, 1, None) : id \in EnvIds}
  \cup {Envelope(id, "agent_result", CleanPayload, 0, 1,
                 Some([tokens |-> 2, cost_micros |-> 1])) : id \in EnvIds}

Budgets == {None, Some([max_tokens |-> 1, max_cost_micros |-> 0])}

StartRunRequests ==
  [op : {"StartRun"}, authorization : Headers, workflow_id : {"r1"},
   initial_task : {None} \cup {Some(e) : e \in {x \in Envelopes : x.timeout_ms > 0}},
   budget : {None}]

SubmitTaskRequests ==
  [op : {"SubmitTask"}, authorization : Headers, run_id : {"r1"},
   task : {None} \cup {Some(e) : e \in Envelopes}]

StreamEventsRequests ==
  [op : {"StreamEvents"}, authorization : Headers, run_id : {"r1"},
   start_event_id : {0}, since_ts_ms : {0}, max_events : {0}]

FetchResultRequests ==
  [op : {"FetchResult"}, authorization : Headers, run_id : {"r1"}, envelope_id : {"e1"}]

BudgetStartRunRequests ==
  [op : {"StartRun"}, authorization : {Some("tok")}, workflow_id : {"r1"},
   initial_task : {None}, budget : Budgets]

BudgetSubmitTaskRequests ==
  [op : {"SubmitTask"}, authorization : {Some("tok")}, run_id : {"r1"},
   task : {Some(e) : e \in BudgetEnvelopes}]

Rule(name, when, action, message, priority) ==
  [name |-> name, when |-> when, action |-> action, message |-> message,
   transform |-> None, priority |-> priority]

\* "rules: []"
PermissivePolicy == [yaml_ok |-> TRUE, tool_allowlist |-> None, rules |-> << >>]

\* the policy files the service is given
PolicyFiles ==
  { [yaml_ok |-> TRUE, tool_allowlist |-> None,
     rules |-> << Rule("Deny-Tools", << "ToolInvocation" >>, "deny",
                       Some(<< "tools not allowed" >>), 0) >>],
    [yaml_ok |-> TRUE, tool_allowlist |-> None,
     rules |-> << Rule("Redact-PII-Patterns", << "pii_detect" >>, "modify",
                       Some(<< "redacted:", SSN >>), 0) >>],
    [yaml_ok |-> TRUE, tool_allowlist |-> Some(<< "Calc" >>),
     rules |-> << Rule("Flag Prompt", << "LLMPrompt" >>, "allow_but_flag",
                       Some(<< "flag for review of", SSN >>), 10) >>],
    [yaml_ok |-> FALSE, tool_allowlist |-> None, rules |-> << >>],
    [yaml_ok |-> TRUE, tool_allowlist |-> None,
     rules |-> << Rule("Bad", << "ToolInvocation" >>, "allow", None, 0) >>] }

\* the environments of the budget scenarios: no token and no limit at all, a limit
\* per run from ORCA_MAX_TOKENS, a limit on the shared manager from with_budget
BudgetEnvironments ==
  { [AGENT_AUTH_TOKEN |-> None, ORCA_MAX_TOKENS |-> None,
     ORCA_MAX_COST_MICROS |-> None, with_budget |-> BudgetConfigDefault],
    [AGENT_AUTH_TOKEN |-> Some("tok"), ORCA_MAX_TOKENS |-> Some(5),
     ORCA_MAX_COST_MICROS |-> None, with_budget |-> BudgetConfigDefault],
    [AGENT_AUTH_TOKEN |-> Some("tok"), ORCA_MAX_TOKENS |-> None,
     ORCA_MAX_COST_MICROS |-> None, with_budget |-> BudgetConfig(Some(2), Some(1))] }

\* the environment the service of the pipeline scenarios is started in: a token
\* is configured, and so is a default limit per run
Environments ==
  { [AGENT_AUTH_TOKEN |-> Some("tok"), ORCA_MAX_TOKENS |-> Some(5),
     ORCA_MAX_COST_MICROS |-> None, with_budget |-> BudgetConfigDefault] }

----------------------------------------------------------------------------
(* The specification of the service *)

EmptyMap == [x \in {} |-> 0]

\* OrchestratorService::new on a freshly opened, empty log, in an environment of E
InitWith(E) ==
  /\ wal = << >>
  /\ NEXT_ID = 1
  /\ now = 0
  /\ environ \in E
  /\ seen_ids = {}
  /\ last_event_id_by_run = EmptyMap
  /\ usage_by_run = EmptyMap
  /\ usage_by_run_agent = EmptyMap
  /\ run_start_ts_by_run = EmptyMap
  /\ policy = EngineNew
  /\ budget = ManagerNew(environ.with_budget)
  /\ budgets_by_run = EmptyMap
  /\ req = None
  /\ resp = None
  /\ writers = << >>
  /\ files = EmptyMap
  /\ put = None
  /\ epoch = 0 /\ stores = << >> /\ timers = << >>
  /\ calls = << >>

Init == InitWith(Environments)

Idle == req = None /\ resp = None

\* the handler of request r, run with the append outcomes io
Dispatch(r, io) ==
  CASE r.op = "StartRun" -> StartRun(Service, r, io)
    [] r.op = "SubmitTask" -> SubmitTask(Service, r, io)
    [] r.op = "StreamEvents" -> StreamEvents(Service, r, io)
    [] OTHER -> FetchResult(Service, r, io)

\* the response the client gets: the status and, for a stream, what is streamed
Response(out) ==
  IF "events" \in DOMAIN out THEN [code |-> out.code, events |-> out.events]
  ELSE [code |-> out.code]

\* the handler has run to its return: the state it leaves and its response
Finish(r, out) ==
  /\ wal' = out.s.wal
  /\ NEXT_ID' = out.s.NEXT_ID
  /\ seen_ids' = out.s.seen_ids
  /\ usage_by_run' = out.s.usage_by_run
  /\ usage_by_run_agent' = out.s.usage_by_run_agent
  /\ run_start_ts_by_run' = out.s.run_start_ts_by_run
  /\ budget' = out.s.budget
  /\ budgets_by_run' = out.s.budgets_by_run
  /\ req' = Some(r)
  /\ resp' = Some(Response(out))
  /\ UNCHANGED << now, environ, last_event_id_by_run, policy,
                  writers, files, put,
                  epoch, stores, timers, calls >>

\* a request of the set R arrives and is served, every append succeeding
Handle(R) ==
  /\ Idle
  /\ \E r \in R : Finish(r, Dispatch(r, IoOk))

HandleStartRun == NEXT_ID <= MaxWal /\ Handle(StartRunRequests)
HandleSubmitTask == NEXT_ID <= MaxWal /\ Handle(SubmitTaskRequests)
HandleStreamEvents == Handle(StreamEventsRequests)
HandleFetchResult == Handle(FetchResultRequests)

\* the response is handed to the client
Deliver ==
  /\ IsSome(resp)
  /\ req' = None /\ resp' = None
  /\ UNCHANGED << wal, NEXT_ID, now, environ, seen_ids, last_event_id_by_run, usage_by_run,
                  usage_by_run_agent, run_start_ts_by_run, policy, budget, budgets_by_run,
                  writers, files, put,
                  epoch, stores, timers, calls >>

\* time passes
Tick ==
  /\ Idle /\ now < MaxNow
  /\ now' = now + 1
  /\ UNCHANGED << wal, NEXT_ID, environ, seen_ids, last_event_id_by_run, usage_by_run,
                  usage_by_run_agent, run_start_ts_by_run, policy, budget, budgets_by_run,
                  req, resp,
                  writers, files, put,
                  epoch, stores, timers, calls >>

\* OrchestratorService::load_policy_from_path with a file of the set F
Load(F) ==
  /\ Idle
  /\ \E pf \in F : policy' = LoadFromYaml(policy, pf).engine
  /\ UNCHANGED << wal, NEXT_ID, now, environ, seen_ids, last_event_id_by_run, usage_by_run,
                  usage_by_run_agent, run_start_ts_by_run, budget, budgets_by_run,
                  req, resp,
                  writers, files, put,
                  epoch, stores, timers, calls >>

LoadPolicy == NEXT_ID <= MaxLoadId /\ Load(PolicyFiles)

Next ==
  \/ HandleStartRun
  \/ HandleSubmitTask
  \/ HandleStreamEvents
  \/ HandleFetchResult
  \/ Deliver
  \/ Tick
  \/ LoadPolicy

Spec == Init /\ [][Next]_vars

----------------------------------------------------------------------------
(* The budget scenarios: one run, a permissive policy, plain envelopes *)

HandleBudgetStartRun == NEXT_ID <= MaxWalBudget /\ Handle(BudgetStartRunRequests)
HandleBudgetSubmitTask == NEXT_ID <= MaxWalBudget /\ Handle(BudgetSubmitTaskRequests)
LoadPermissivePolicy == ~policy.policy_loaded /\ Load({PermissivePolicy})

NextBudget ==
  \/ HandleBudgetStartRun
  \/ HandleBudgetSubmitTask
  \/ LoadPermissivePolicy
  \/ Deliver

InitBudget == InitWith(BudgetEnvironments)

SpecBudget == InitBudget /\ [][NextBudget]_vars

----------------------------------------------------------------------------
(* What the properties below read off a step and off the log *)

\* the step runs the handler of a request of kind op
Handled(op) == req = None /\ IsSome(req') /\ Unwrap(req').op = op

\* the state holds a served request of kind op whose response is code
Served(op, code) ==
  /\ IsSome(req) /\ Unwrap(req).op = op
  /\ IsSome(resp) /\ Unwrap(resp).code = code

\* the payloads of the records read_range(0, u64::MAX) finds in a file
Payloads(file) ==
  LET recs == ReadRange(file, 0, U64Max).recs
  IN [i \in 1..Len(recs) |-> recs[i].payload]

\* the payloads of the records the step appends: what is read from the bytes
\* added to the file
Appended == Payloads(SubSeq(wal', Len(wal) + 1, Len(wal')))

\* the indices of the payloads of ps that are events of kind ev
Events(ps, ev) == {i \in 1..Len(ps) : ps[i].event = ev}

\* the task_enqueued events of ps for envelope id
TaskEnqueued(ps, id) ==
  {i \in Events(ps, "task_enqueued") : Unwrap(ps[i].envelope).id = id}

\* the step serves a SubmitTask that carries an envelope
SubmitsEnvelope == Handled("SubmitTask") /\ IsSome(Unwrap(req').task)

\* the envelope of the SubmitTask the step serves
Task == Unwrap(Unwrap(req').task)

\* the envelope is past its time to live
Expired(env) == env.timeout_ms > 0 /\ now - env.ts_ms > env.timeout_ms

\* the request carries the configured token, or no token is configured
Authenticated(r) ==
  \/ environ.AGENT_AUTH_TOKEN \in {None, Some("")}
  \/ r.authorization = environ.AGENT_AUTH_TOKEN

\* the SubmitTask the step serves gets past authentication and the envelope check
PassesChecks ==
  /\ SubmitsEnvelope
  /\ Authenticated(Unwrap(req'))
  /\ ~Expired(Task)
  /\ Task.protocol_version = 1

\* the SubmitTask the step serves gets to the policy step: it passes the checks and
\* its envelope id is new
ReachesPolicy == PassesChecks /\ Task.id \notin seen_ids

\* the service changes nothing but its response
NothingChanged ==
  /\ wal' = wal /\ NEXT_ID' = NEXT_ID /\ seen_ids' = seen_ids
  /\ last_event_id_by_run' = last_event_id_by_run
  /\ usage_by_run' = usage_by_run /\ usage_by_run_agent' = usage_by_run_agent
  /\ run_start_ts_by_run' = run_start_ts_by_run
  /\ budget' = budget /\ budgets_by_run' = budgets_by_run

----------------------------------------------------------------------------
(* C1: idempotent submission *)

\* C1 as stated, for requests that carry the right token: once a SubmitTask has
\* accepted an envelope id (its task_enqueued record is in the log), a later
\* SubmitTask carrying that id returns accepted=true and appends no task_enqueued
\* record for it.
C1_DuplicateAlwaysAccepted ==
  [][ (/\ SubmitsEnvelope
       /\ Authenticated(Unwrap(req'))
       /\ TaskEnqueued(Payloads(wal), Task.id) # {})
      => (/\ Unwrap(resp').code = "Ok"
          /\ TaskEnqueued(Payloads(wal'), Task.id) = TaskEnqueued(Payloads(wal), Task.id)) ]_vars

\* C1 amended: once a SubmitTask has accepted an envelope id, a later SubmitTask
\* carrying that id that passes authentication and the envelope check (time to
\* live, protocol version) returns accepted=true, appends nothing and changes
\* nothing; and no SubmitTask at all appends a second task_enqueued for the id.
C1_DuplicateAccepted ==
  [][ (SubmitsEnvelope /\ TaskEnqueued(Payloads(wal), Task.id) # {})
      => (/\ TaskEnqueued(Payloads(wal'), Task.id) = TaskEnqueued(Payloads(wal), Task.id)
          /\ PassesChecks => (Unwrap(resp').code = "Ok" /\ NothingChanged)) ]_vars

\* a duplicate was accepted: the request carries PII under an id whose only
\* task_enqueued record holds the clean payload of the first submission
C1_Witness ==
  /\ Served("SubmitTask", "Ok")
  /\ IsSome(Unwrap(req).task)
  /\ Unwrap(Unwrap(req).task).payload_json = PiiPayload
  /\ LET ps == Payloads(wal)
         te == TaskEnqueued(ps, Unwrap(Unwrap(req).task).id)
     IN /\ Cardinality(te) = 1
        /\ \A i \in te : Unwrap(ps[i].envelope).payload_json = CleanPayload

----------------------------------------------------------------------------
(* C2: fail-closed without a policy *)

\* C2 as stated, for requests that get to the policy step: while no valid policy
\* is loaded, every SubmitTask returns PermissionDenied and appends no
\* task_enqueued record, whatever its envelope contains.
C2_NoPolicyDeniesAll ==
  [][ (ReachesPolicy /\ ~policy.policy_loaded)
      => (/\ Unwrap(resp').code = "PermissionDenied"
          /\ Events(Appended, "task_enqueued") = {}) ]_vars

\* C2 amended: while no valid policy is loaded, every SubmitTask that gets to the
\* policy step with a payload that holds no SSN-like pattern returns
\* PermissionDenied and appends no task_enqueued record (a payload that holds one
\* is redacted by the built-in step, which runs first, and goes on).
C2_NoPolicyDeniesClean ==
  [][ (ReachesPolicy /\ ~policy.policy_loaded /\ ~ContainsPii(Task.payload_json.text))
      => (/\ Unwrap(resp').code = "PermissionDenied"
          /\ Events(Appended, "task_enqueued") = {}) ]_vars

\* a clean envelope was denied while no policy was loaded, by the fail-closed rule
C2_Witness ==
  /\ Served("SubmitTask", "PermissionDenied")
  /\ ~policy.policy_loaded
  /\ Unwrap(Unwrap(req).task).payload_json = CleanPayload
  /\ LET ps == Payloads(wal)
     IN /\ ps # << >>
        /\ ps[Len(ps)].event = "policy_audit"
        /\ ps[Len(ps)].rule_name = Some("fail_closed_default")
        /\ ps[Len(ps)].envelope_id = Unwrap(Unwrap(req).task).id

----------------------------------------------------------------------------
(* C3, C4: budget enforcement *)

\* the SubmitTask the step serves gets to the budget step: the policy does not deny it
ReachesBudget == ReachesPolicy /\ PreSubmitTask(policy, Task).kind # "Deny"

\* the manager that accounts for a run: its own, or else the shared one
ManagerOf(run_id, own, shared) == IF run_id \in DOMAIN own THEN own[run_id] ELSE shared

\* a counter is over a limit that is set and not zero
Over(count, limit) == IsSome(limit) /\ Unwrap(limit) > 0 /\ count > Unwrap(limit)

\* the counters of a manager are past one of its limits
PastLimit(mgr) ==
  \/ Over(mgr.tokens, mgr.cfg.max_tokens)
  \/ Over(mgr.cost_micros, mgr.cfg.max_cost_micros)

\* the budget_exceeded events of ps for a run
BudgetExceeded(ps, run_id) ==
  {i \in Events(ps, "budget_exceeded") : ps[i].run_id = Some(run_id)}

\* C3: when adding a task's usage leaves the counters of the run's budget past a
\* limit (state Exceeded), SubmitTask appends a budget_exceeded record for the run,
\* returns ResourceExhausted, and appends no usage_update and no task_enqueued.
C3_ExceededRejects ==
  [][ (/\ ReachesBudget
       /\ PastLimit(ManagerOf(Unwrap(req').run_id, budgets_by_run', budget')))
      => (/\ Unwrap(resp').code = "ResourceExhausted"
          /\ Cardinality(BudgetExceeded(Appended, Unwrap(req').run_id)) = 1
          /\ Events(Appended, "usage_update") = {}
          /\ Events(Appended, "task_enqueued") = {}) ]_vars

\* a task was rejected for its budget: the counters of the run are past the limit
\* and the last record of the log is the budget_exceeded of the run
C3_Witness ==
  /\ Served("SubmitTask", "ResourceExhausted")
  /\ PastLimit(ManagerOf(Unwrap(req).run_id, budgets_by_run, budget))
  /\ LET ps == Payloads(wal)
     IN /\ ps # << >>
        /\ ps[Len(ps)].event = "budget_exceeded"
        /\ ps[Len(ps)].run_id = Some(Unwrap(req).run_id)

\* C4: a run's budget never recovers: once a SubmitTask for run r was rejected with
\* ResourceExhausted (its budget_exceeded record is in the log), every later
\* SubmitTask for r that carries a new envelope id and passes authentication, the
\* envelope check and the policy is rejected with ResourceExhausted too, whatever
\* happened in between.
C4_BudgetNeverRecovers ==
  [][ (ReachesBudget /\ BudgetExceeded(Payloads(wal), Unwrap(req').run_id) # {})
      => Unwrap(resp').code = "ResourceExhausted" ]_vars

----------------------------------------------------------------------------
(* C5, C6: the checks in front of the pipeline *)

\* C5: for an envelope with timeout_ms > 0 and now - ts_ms > timeout_ms, an
\* authenticated SubmitTask returns DeadlineExceeded and appends nothing; the
\* seen-id set, the usage totals and the budget counters (and the rest of the
\* service state) are unchanged.
C5_ExpiredRejected ==
  [][ (SubmitsEnvelope /\ Authenticated(Unwrap(req')) /\ Expired(Task))
      => (Unwrap(resp').code = "DeadlineExceeded" /\ NothingChanged) ]_vars

\* an expired envelope was rejected: the request carries the configured token and
\* the log already holds records
C5_Witness ==
  /\ Served("SubmitTask", "DeadlineExceeded")
  /\ IsSome(environ.AGENT_AUTH_TOKEN)
  /\ Unwrap(req).authorization = environ.AGENT_AUTH_TOKEN
  /\ Expired(Unwrap(Unwrap(req).task))
  /\ Payloads(wal) # << >>

\* C6: when a token is configured, every StartRun, SubmitTask, StreamEvents and
\* FetchResult whose authorization header is missing or differs from the token
\* returns Unauthenticated; nothing is appended and the run index, the seen-id
\* set and the budgets are unchanged.
C6_UnauthenticatedFirst ==
  [][ (/\ req = None /\ IsSome(req')
       /\ Unwrap(req').op \in {"StartRun", "SubmitTask", "StreamEvents", "FetchResult"}
       /\ ~Authenticated(Unwrap(req')))
      => (Unwrap(resp').code = "Unauthenticated" /\ NothingChanged) ]_vars

\* a SubmitTask with a wrong token was turned away although its envelope is
\* missing, so InvalidArgument would come next; the log already holds records
C6_Witness ==
  /\ Served("SubmitTask", "Unauthenticated")
  /\ environ.AGENT_AUTH_TOKEN = Some("tok")
  /\ Unwrap(req).authorization = Some("bad")
  /\ Unwrap(req).task = None
  /\ Payloads(wal) # << >>

----------------------------------------------------------------------------
(* C7, C8, C9: policy decisions and their audit records *)

\* C7: when the pre-submit policy decision is Deny, SubmitTask returns
\* PermissionDenied and the only record it appends is a policy_audit; the budget
\* counters, the usage totals and the seen-id set are as before the call.
C7_DenyOnlyAudits ==
  [][ (ReachesPolicy /\ PreSubmitTask(policy, Task).kind = "Deny")
      => (/\ Unwrap(resp').code = "PermissionDenied"
          /\ Len(Appended) = 1
          /\ Appended[1].event = "policy_audit"
          /\ budget' = budget /\ budgets_by_run' = budgets_by_run
          /\ usage_by_run' = usage_by_run /\ usage_by_run_agent' = usage_by_run_agent
          /\ seen_ids' = seen_ids) ]_vars

\* a rule of a loaded policy denied a task: the last record of the log is its
\* policy_audit and the envelope id is not in the seen-id set
C7_Witness ==
  /\ Served("SubmitTask", "PermissionDenied")
  /\ policy.policy_loaded
  /\ Unwrap(Unwrap(req).task).id \notin seen_ids
  /\ LET ps == Payloads(wal)
     IN /\ Len(ps) > 1
        /\ ps[Len(ps)].event = "policy_audit"
        /\ ps[Len(ps)].outcome = "denied"
        /\ ps[Len(ps)].rule_name = Some("Deny-Tools")

\* the outcome a policy_audit record must state for a decision, if any
AuditedAs(d) ==
  IF d.kind = "Deny" THEN Some("denied")
  ELSE IF d.kind = "Modify" THEN Some("modified")
  ELSE IF d.action = Some("allow_but_flag") THEN Some("allowed_flagged")
  ELSE None

\* the policy_audit events of ps of a phase, for a run or workflow and an envelope,
\* that state an outcome
Audits(ps, phase, run_id, workflow_id, id, outcome) ==
  {i \in Events(ps, "policy_audit") :
     /\ ps[i].phase = phase /\ ps[i].run_id = run_id /\ ps[i].workflow_id = workflow_id
     /\ ps[i].envelope_id = id /\ ps[i].outcome = outcome}

\* what C8 asks of the records a request appends, given its policy decision
AuditMatches(d, phase, run_id, workflow_id, id) ==
  IF IsSome(AuditedAs(d))
  THEN Audits(Appended, phase, run_id, workflow_id, id, Unwrap(AuditedAs(d))) # {}
  ELSE Events(Appended, "policy_audit") = {}

\* the step serves a StartRun whose initial task gets to the policy step
StartRunReachesPolicy ==
  /\ Handled("StartRun")
  /\ Authenticated(Unwrap(req'))
  /\ IsSome(Unwrap(req').initial_task)
  /\ ~Expired(Unwrap(Unwrap(req').initial_task))
  /\ Unwrap(Unwrap(req').initial_task).protocol_version = 1

C9_AuditReasonRedacted ==
  LET ps == Payloads(wal)
  IN \A i \in Events(ps, "policy_audit") :
       IsSome(ps[i].reason) => ~ContainsPii(Unwrap(ps[i].reason))

----------------------------------------------------------------------------
(* The event log on its own: a caller appends records with ids and payloads of *)
(* its choice, as JsonlEventLog::append lets it                                 *)

\* the ids: the smallest, one in the middle, u64::MAX
WalIds == {0, 1, U64Max}

RECURSIVE Strings(_)
Strings(n) ==
  IF n = 0 THEN {<< >>}
  ELSE LET shorter == Strings(n - 1)
       IN shorter \cup {Append(t, c) : t \in shorter, c \in StrChars}

\* the payloads: a JSON object, and every string of up to MaxStr characters
WalPayloads == {[event |-> "x"]} \cup {[str |-> t] : t \in Strings(MaxStr)}

\* the number of lines of a file
Lines(file) == Cardinality({i \in 1..Len(file) : file[i].ch = "nl"})

\* JsonlEventLog::append(id, ts_ms, payload), called by a client of the log
WalAppend ==
  /\ Lines(wal) < MaxAppends
  /\ \E id \in WalIds, payload \in WalPayloads :
       /\ wal' = LogAppend(wal, id, now, payload)
       /\ req' = Some([op |-> "append", id |-> id, ts_ms |-> now, payload |-> payload])
  /\ resp' = Some([code |-> "Ok"])
  /\ UNCHANGED << NEXT_ID, now, environ, seen_ids, last_event_id_by_run, usage_by_run,
                  usage_by_run_agent, run_start_ts_by_run, policy, budget, budgets_by_run,
                  writers, files, put,
                  epoch, stores, timers, calls >>

NextWal == WalAppend

SpecWal == Init /\ [][NextWal]_vars

----------------------------------------------------------------------------
(* C10: reading the log back *)

\* the step is an append to the log
Appends == IsSome(req') /\ Unwrap(req').op = "append" /\ wal' # wal

\* the record the step appends
AppendedRecord ==
  [id |-> Unwrap(req').id, ts_ms |-> Unwrap(req').ts_ms, payload |-> Unwrap(req').payload]

\* C10 as stated: for any sequence of appends, read_range(0, u64::MAX) returns
\* exactly the appended records, each once, in append order: every append adds
\* its record at the end of what read_range returns.
C10_ReadsEveryRecord ==
  [][ Appends
      => ReadRange(wal', 0, U64Max)
           = [ok |-> TRUE,
              recs |-> Append(ReadRange(wal, 0, U64Max).recs, AppendedRecord)] ]_vars

\* C10 amended: read_range(0, u64::MAX) returns exactly the appended records whose
\* id is below u64::MAX, each once, in append order (the range is half-open, so a
\* record with id u64::MAX is never returned).
C10_ReadsRecordsBelowMax ==
  [][ Appends
      => ReadRange(wal', 0, U64Max)
           = [ok |-> TRUE,
              recs |-> IF AppendedRecord.id < U64Max
                       THEN Append(ReadRange(wal, 0, U64Max).recs, AppendedRecord)
                       ELSE ReadRange(wal, 0, U64Max).recs] ]_vars

\* two records were appended and are read back in order, the first a string that
\* is a newline, the second, with a smaller id, a string that is a backslash
C10_Witness ==
  LET got == ReadRange(wal, 0, U64Max)
  IN /\ got.ok
     /\ Len(got.recs) = 2
     /\ got.recs[1] = [id |-> 1, ts_ms |-> 0, payload |-> [str |-> << "nl" >>]]
     /\ got.recs[2] = [id |-> 0, ts_ms |-> 0, payload |-> [str |-> << "bs" >>]]

----------------------------------------------------------------------------
(* Concurrent appenders: tasks of one process call JsonlEventLog::append on *)
(* clones of the log.  Every call opens the file in append mode for itself  *)
(* and issues two writes, the line and then the newline; the operating      *)
(* system places each write at the end of the file.                         *)

Tasks == 1..MaxTasks

\* append, up to the serialisation of the record: OpenOptions::new().append(true)
\* .open(path) and serde_json::to_string(&rec); task t appends the record of id t
AppendOpen(t) ==
  /\ t \notin DOMAIN writers
  /\ \E payload \in WalPayloads :
       writers' = MapInsert(writers, t, [pc |-> "line", id |-> t, ts_ms |-> now,
                                          payload |-> payload])
  /\ UNCHANGED << wal, NEXT_ID, now, environ, seen_ids, last_event_id_by_run, usage_by_run,
                  usage_by_run_agent, run_start_ts_by_run, policy, budget, budgets_by_run,
                  req, resp, files, put,
                  epoch, stores, timers, calls >>

\* file.write_all(line.as_bytes())
AppendWriteLine(t) ==
  /\ t \in DOMAIN writers /\ writers[t].pc = "line"
  /\ wal' = wal \o ToJsonLine(writers[t].id, writers[t].ts_ms, writers[t].payload)
  /\ writers' = [writers EXCEPT ![t].pc = "nl"]
  /\ UNCHANGED << NEXT_ID, now, environ, seen_ids, last_event_id_by_run, usage_by_run,
                  usage_by_run_agent, run_start_ts_by_run, policy, budget, budgets_by_run,
                  req, resp, files, put,
                  epoch, stores, timers, calls >>

\* file.write_all(b"\n"), file.flush(), Ok(id)
AppendWriteNewline(t) ==
  /\ t \in DOMAIN writers /\ writers[t].pc = "nl"
  /\ wal' = wal \o << NL >>
  /\ writers' = [writers EXCEPT ![t].pc = "done"]
  /\ UNCHANGED << NEXT_ID, now, environ, seen_ids, last_event_id_by_run, usage_by_run,
                  usage_by_run_agent, run_start_ts_by_run, policy, budget, budgets_by_run,
                  req, resp, files, put,
                  epoch, stores, timers, calls >>

NextAppenders ==
  \E t \in Tasks :
    \/ AppendOpen(t)
    \/ AppendWriteLine(t)
    \/ AppendWriteNewline(t)

SpecAppenders == Init /\ [][NextAppenders]_vars

----------------------------------------------------------------------------
(* C11: concurrent appends *)

\* every line of a file, parsed, whatever its id
AllRecords(file) == ReadLines(SplitLines(file, 1, << >>, << >>), 1, 0, U64Max + 1, << >>)

\* the record task t appends
RecordOf(t) ==
  [id |-> writers[t].id, ts_ms |-> writers[t].ts_ms, payload |-> writers[t].payload]

\* C11: when several tasks of one process append concurrently, the appends
\* serialize: once all of them have returned, the file ends with a newline, every
\* line of it parses, and the records read are the appended ones, each once.
C11_AppendsSerialize ==
  (DOMAIN writers = Tasks /\ \A t \in Tasks : writers[t].pc = "done")
  => /\ wal[Len(wal)] = NL
     /\ AllRecords(wal).ok
     /\ Len(AllRecords(wal).recs) = MaxTasks
     /\ \A t \in Tasks :
          Cardinality({i \in 1..Len(AllRecords(wal).recs) :
                         AllRecords(wal).recs[i] = RecordOf(t)}) = 1

----------------------------------------------------------------------------
(* Restart: the process ends, a new one is started on the same log and      *)
(* rebuilds its state with replay_on_start                                  *)

\* p.get("run_id")...or_else(|| p.get("workflow_id")...)
RunOf(p) == IF IsSome(GetStr(p, "run_id")) THEN GetStr(p, "run_id")
            ELSE GetStr(p, "workflow_id")

\* p.get("envelope").and_then(|v| v.get("id")).and_then(|v| v.as_str())
EnvelopeIdOf(p) ==
  IF "envelope" \in DOMAIN p /\ IsSome(p.envelope) THEN Some(Unwrap(p.envelope).id)
  ELSE None

\* the body of the loop of replay_on_start for one record, on the index idx
ReplayRecord(idx, rec) ==
  [last_event_id_by_run |->
     IF IsSome(RunOf(rec.payload))
     THEN MapInsert(idx.last_event_id_by_run, Unwrap(RunOf(rec.payload)), rec.id)
     ELSE idx.last_event_id_by_run,
   run_start_ts_by_run |->
     IF IsSome(RunOf(rec.payload)) /\ "event" \in DOMAIN rec.payload
        /\ rec.payload.event = "start_run"
     THEN MapInsert(idx.run_start_ts_by_run, Unwrap(RunOf(rec.payload)), rec.ts_ms)
     ELSE idx.run_start_ts_by_run,
   seen_ids |->
     IF IsSome(EnvelopeIdOf(rec.payload))
     THEN idx.seen_ids \cup {Unwrap(EnvelopeIdOf(rec.payload))}
     ELSE idx.seen_ids]

\* `for rec in recs` of replay_on_start
RECURSIVE ReplayLoop(_, _, _)
ReplayLoop(recs, i, idx) ==
  IF i > Len(recs) THEN idx
  ELSE ReplayLoop(recs, i + 1, ReplayRecord(idx, recs[i]))

\* the index and the seen set of a service just constructed
NewIndex ==
  [last_event_id_by_run |-> EmptyMap, run_start_ts_by_run |-> EmptyMap, seen_ids |-> {}]

\* replay_on_start once read_range has returned `read`
ReplayRead(read) ==
  IF read.ok THEN [code |-> "Ok", idx |-> ReplayLoop(read.recs, 1, NewIndex)]
  ELSE [code |-> "Internal", idx |-> NewIndex]

\* OrchestratorService::replay_on_start
ReplayOnStart(file) == ReplayRead(ReadRange(file, 0, U64Max))

\* the new process has replayed the log: the state it starts serving with
Started(out) ==
  /\ NEXT_ID' = 1
  /\ seen_ids' = out.idx.seen_ids
  /\ last_event_id_by_run' = out.idx.last_event_id_by_run
  /\ run_start_ts_by_run' = out.idx.run_start_ts_by_run
  /\ usage_by_run' = EmptyMap
  /\ usage_by_run_agent' = EmptyMap
  /\ policy' = EngineNew
  /\ budget' = ManagerNew(environ.with_budget)
  /\ budgets_by_run' = EmptyMap
  /\ req' = Some([op |-> "Restart"])
  /\ resp' = Some([code |-> out.code])
  /\ UNCHANGED << wal, now, environ, writers, files, put,
                  epoch, stores, timers, calls >>

\* the process is restarted: OrchestratorService::new on the log as it is, then
\* replay_on_start
Restart == Idle /\ Started(ReplayOnStart(wal))

\* the requests of the restart scenarios: a run starts with or without an initial
\* task, plain tasks are submitted
RestartEnvelopes == {Envelope(id, "agent_task", CleanPayload, 0, 1, None) : id \in EnvIds}

RestartStartRunRequests ==
  [op : {"StartRun"}, authorization : {Some("tok")}, workflow_id : {"r1"},
   initial_task : {None, Some(Envelope("e1", "agent_task", CleanPayload, 0, 1, None))},
   budget : {None}]

RestartSubmitTaskRequests ==
  [op : {"SubmitTask"}, authorization : {Some("tok")}, run_id : {"r1"},
   task : {Some(e) : e \in RestartEnvelopes}]

HandleRestartStartRun == Lines(wal) < MaxWalRestart /\ Handle(RestartStartRunRequests)
HandleRestartSubmitTask == Lines(wal) < MaxWalRestart /\ Handle(RestartSubmitTaskRequests)

NextRestart ==
  \/ HandleRestartStartRun
  \/ HandleRestartSubmitTask
  \/ LoadPermissivePolicy
  \/ Deliver
  \/ Tick
  \/ Restart

SpecRestart == Init /\ [][NextRestart]_vars

----------------------------------------------------------------------------
(* C12, C13: what replay_on_start rebuilds *)

\* the step is a restart whose replay succeeded
Restarts == Handled("Restart") /\ Unwrap(resp').code = "Ok"

\* the positions of the records of the log that belong to run
RecordsOfRun(recs, run) == {i \in 1..Len(recs) : RunOf(recs[i].payload) = Some(run)}

\* the runs the log has records of
RunsOf(recs) == {Unwrap(RunOf(recs[i].payload)) : i \in {j \in 1..Len(recs) : IsSome(RunOf(recs[j].payload))}}

\* the greatest element of a nonempty set of positions
Last(S) == CHOOSE i \in S : \A j \in S : j <= i

\* the positions of the records of run with the given event
EventsOfRun(recs, run, ev) ==
  {i \in RecordsOfRun(recs, run) : "event" \in DOMAIN recs[i].payload
                                   /\ recs[i].payload.event = ev}

\* C12: after replay_on_start the run index holds for every run what the log
\* records for it: the id of its last record, the cumulative (tokens,
\* cost_micros) of its last usage_update and the timestamp of its last start_run.
C12_ReplayRebuildsIndex ==
  [][ Restarts =>
      LET recs == AllRecords(wal).recs
      IN \A run \in RunsOf(recs) :
           /\ run \in DOMAIN last_event_id_by_run'
           /\ last_event_id_by_run'[run] = recs[Last(RecordsOfRun(recs, run))].id
           /\ EventsOfRun(recs, run, "start_run") # {}
              => /\ run \in DOMAIN run_start_ts_by_run'
                 /\ run_start_ts_by_run'[run]
                      = recs[Last(EventsOfRun(recs, run, "start_run"))].ts_ms
           /\ EventsOfRun(recs, run, "usage_update") # {}
              => /\ run \in DOMAIN usage_by_run'
                 /\ usage_by_run'[run]
                      = << recs[Last(EventsOfRun(recs, run, "usage_update"))].payload.tokens,
                           recs[Last(EventsOfRun(recs, run, "usage_update"))].payload.cost_micros >>
    ]_vars

\* C13: after a restart followed by replay_on_start the seen-envelope set equals
\* the one the previous process held, so that SubmitTask treats an id as a
\* duplicate after the restart iff it did just before.
C13_ReplayRebuildsSeen ==
  [][ Restarts => \A id \in EnvIds : SeenContains([seen_ids |-> seen_ids'], id)
                                      <=> SeenContains([seen_ids |-> seen_ids], id) ]_vars

----------------------------------------------------------------------------
(* Streaming: two runs are started, tasks are submitted to the first, time  *)
(* passes, and clients stream the events of either run with every filter    *)

StreamStartRunRequests ==
  [op : {"StartRun"}, authorization : {Some("tok")}, workflow_id : {"r1", "r2"},
   initial_task : {None}, budget : {None}]

StreamSubmitTaskRequests ==
  [op : {"SubmitTask"}, authorization : {Some("tok")}, run_id : {"r1"},
   task : {Some(Envelope("e1", "agent_task", CleanPayload, 0, 1, None))}]

StreamRequests ==
  [op : {"StreamEvents"}, authorization : {Some("tok")}, run_id : {"r1", "r2"},
   start_event_id : {0, 2}, since_ts_ms : {0, 1}, max_events : {0, 1}]

HandleStreamStartRun == NEXT_ID <= MaxWalStream /\ Handle(StreamStartRunRequests)
HandleStreamSubmitTask == NEXT_ID <= MaxWalStream /\ Handle(StreamSubmitTaskRequests)
HandleStream == Handle(StreamRequests)

NextStream ==
  \/ HandleStreamStartRun
  \/ HandleStreamSubmitTask
  \/ HandleStream
  \/ LoadPermissivePolicy
  \/ Deliver
  \/ Tick

SpecStream == Init /\ [][NextStream]_vars

----------------------------------------------------------------------------
(* C14: what StreamEvents yields *)

\* the positions of the records of the log a StreamEvents request r asks for
Wanted(recs, r) ==
  {i \in 1..Len(recs) :
     /\ \/ GetStr(recs[i].payload, "run_id") = Some(r.run_id)
        \/ GetStr(recs[i].payload, "workflow_id") = Some(r.run_id)
     /\ recs[i].id >= r.start_event_id
     /\ recs[i].ts_ms >= r.since_ts_ms}

\* the k-th smallest element of a set of positions
Nth(S, k) == CHOOSE i \in S : Cardinality({j \in S : j <= i}) = k

\* how many of n wanted records a request yields
Yielded(n, r) == IF r.max_events > 0 /\ r.max_events < n THEN r.max_events ELSE n

\* C14: StreamEvents(run_id, start_event_id, since_ts_ms, max_events) yields, in
\* WAL order, exactly the records whose run_id or workflow_id equals run_id, whose
\* id is at least start_event_id and whose ts_ms is at least since_ts_ms, and no
\* more than the first max_events of them when max_events > 0.
C14_StreamYieldsMatching ==
  [][ Handled("StreamEvents") /\ Unwrap(resp').code = "Ok" =>
      LET r == Unwrap(req')
          recs == AllRecords(wal).recs
          S == Wanted(recs, r)
      IN Unwrap(resp').events =
           [ok |-> TRUE,
            sent |-> [k \in 1..Yielded(Cardinality(S), r) |->
                        StreamedEnvelope(recs[Nth(S, k)])]] ]_vars

\* a stream was served in which every filter took something away: the log has a
\* record of another run, a record of the run with a smaller id and an earlier
\* timestamp, and two records that pass, of which the limit let one through
C14_Witness ==
  /\ Served("StreamEvents", "Ok")
  /\ LET r == Unwrap(req)
         recs == AllRecords(wal).recs
     IN /\ r.start_event_id = 2 /\ r.since_ts_ms = 1 /\ r.max_events = 1
        /\ Cardinality(Wanted(recs, r)) = 2
        /\ Len(Unwrap(resp).events.sent) = 1
        /\ \E i \in 1..Len(recs) : GetStr(recs[i].payload, "workflow_id") # Some(r.run_id)
                                   /\ GetStr(recs[i].payload, "run_id") # Some(r.run_id)
        /\ \E i \in 1..Len(recs) : /\ GetStr(recs[i].payload, "workflow_id") = Some(r.run_id)
                                   /\ recs[i].id < 2 /\ recs[i].ts_ms < 1

----------------------------------------------------------------------------
(* crates/blob_store: the content-addressed store.                          *)
(* A blob is a sequence of bytes.  A file is a sequence of fields: the      *)
(* fields of the header, the length prefix of a chunk, the bytes of its      *)
(* ciphertext and its authentication tag.  SHA-256 is an ideal hash: the     *)
(* digest of b is a value that determines b.  zstd wraps its input in a      *)
(* frame; AES-256-GCM binds every ciphertext byte and the tag to the key,    *)
(* the nonce and the plaintext.                                              *)

\* CHUNK_SIZE, scaled down from 64 KiB
CHUNK_SIZE == 2

\* the key of the store's KeyProvider
KeyBytes == "k1"

\* sha2::Sha256 over bytes
Sha256(bytes) == [sha256 |-> bytes]

\* BlobStore::digest_of
DigestOf(bytes) == Sha256(bytes)

\* BlobStore::path_for: <root>/sha256/aa/bb/<hex>
PathFor(digest) == [dir |-> "sha256", name |-> digest, ext |-> ""]

\* a faulty variant of IncompletePath: the file is written in place
IncompleteInPlace(digest) == [dir |-> "sha256", name |-> digest, ext |-> ""]

\* final_path.with_extension("incomplete")
IncompletePath(digest) == [dir |-> "sha256", name |-> digest, ext |-> "incomplete"]

\* tmp_dir.join(format!("compressed-{}.tmp", i))
TmpPath(i) == [dir |-> ".tmp", name |-> [compressed |-> i], ext |-> "tmp"]

\* derive_nonce_prefix: SHA-256(key || digest)[..12]
DeriveNoncePrefix(key_bytes, digest) == [key |-> key_bytes, digest |-> digest]

\* the nonce of chunk number counter: nonce_prefix[..8] || counter
ChunkNonce(nonce_prefix, counter) == [prefix |-> nonce_prefix, tail |-> << "counter", counter >>]

\* the whole 12-byte prefix used as a nonce, by the empty-input branch of
\* put_reader and by the legacy path of get_to_writer
PrefixNonce(nonce_prefix) == [prefix |-> nonce_prefix, tail |-> << "prefix" >>]

\* zstd::stream::write::Encoder: the frame around the input
Compress(bytes) == << "zstd_magic" >> \o bytes \o << "zstd_end" >>

\* zstd::stream::read::Decoder to its end: the content of one whole frame, an
\* error on anything else (no input at all included)
Decompress(comp) ==
  IF Len(comp) >= 2 /\ comp[1] = "zstd_magic" /\ comp[Len(comp)] = "zstd_end"
     /\ \A i \in 2..(Len(comp) - 1) : comp[i] \notin {"zstd_magic", "zstd_end"}
  THEN [ok |-> TRUE, bytes |-> SubSeq(comp, 2, Len(comp) - 1)]
  ELSE [ok |-> FALSE, bytes |-> << >>]

\* cipher.encrypt(nonce, pt): the ciphertext bytes and the tag
Encrypt(key, nonce, pt) ==
  [i \in 1..Len(pt) |-> [f |-> "ct", key |-> key, nonce |-> nonce, i |-> i, b |-> pt[i]]]
  \o << [f |-> "tag", key |-> key, nonce |-> nonce, over |-> pt] >>

\* the bytes a ciphertext would decrypt to if it were authentic
Plain(ct) ==
  [i \in 1..(Len(ct) - 1) |-> IF "b" \in DOMAIN ct[i] THEN ct[i].b ELSE "?"]

\* cipher.decrypt(nonce, ct): the plaintext if the tag authenticates it
Decrypt(key, nonce, ct) ==
  IF Len(ct) >= 1 /\ ct = Encrypt(key, nonce, Plain(ct))
  THEN [ok |-> TRUE, pt |-> Plain(ct)]
  ELSE [ok |-> FALSE, pt |-> << >>]

\* FILE_MAGIC, FILE_VERSION and the chunk size, as the fields of the header
FILE_MAGIC == [f |-> "magic", v |-> "BS2"]
FILE_VERSION == [f |-> "version", v |-> 1]
ChunkSizeField == [f |-> "chunk_size", v |-> CHUNK_SIZE]

\* the length prefix of a chunk
LenField(n) == [f |-> "len", v |-> n]

\* the buffers put_reader hands to write_all for the chunks of the compressed
\* stream from position pos on: a length prefix and a ciphertext per chunk
RECURSIVE ChunkWrites(_, _, _, _, _)
ChunkWrites(key, nonce_prefix, comp, pos, counter) ==
  IF pos > Len(comp) THEN << >>
  ELSE LET ct == Encrypt(key, ChunkNonce(nonce_prefix, counter),
                         SubSeq(comp, pos,
                                IF pos + CHUNK_SIZE - 1 < Len(comp)
                                THEN pos + CHUNK_SIZE - 1 ELSE Len(comp)))
       IN << << LenField(Len(ct)) >>, ct >>
          \o ChunkWrites(key, nonce_prefix, comp, pos + CHUNK_SIZE, counter + 1)

\* every buffer put_reader writes to the .incomplete file, in order: the three
\* fields of the header, then the chunks (one empty chunk for an empty stream)
FileWrites(key, digest, comp) ==
  << << FILE_MAGIC >>, << FILE_VERSION >>, << ChunkSizeField >> >>
  \o (IF comp = << >>
      THEN << << LenField(1) >>,
              Encrypt(key, PrefixNonce(DeriveNoncePrefix(key, digest)), << >>) >>
      ELSE ChunkWrites(key, DeriveNoncePrefix(key, digest), comp, 1, 0))

\* a faulty variant of ReaderNonce: the reader uses the whole prefix as the nonce
\* of every chunk
ReaderNoncePrefix(nonce_prefix, counter) == PrefixNonce(nonce_prefix)

\* the nonce DecryptedCompressedReader::refill decrypts chunk number counter with
ReaderNonce(nonce_prefix, counter) == ChunkNonce(nonce_prefix, counter)

\* DecryptedCompressedReader, read to its end: the decrypted chunks of a file from
\* position pos on, concatenated.  The end of the file where a length prefix is
\* due, and a chunk cut short by the end of the file, both end the stream.
RECURSIVE ReadChunks(_, _, _, _, _, _)
ReadChunks(file, pos, key, nonce_prefix, counter, acc) ==
  IF pos > Len(file) THEN [ok |-> TRUE, comp |-> acc]
  ELSE IF pos + file[pos].v > Len(file) THEN [ok |-> TRUE, comp |-> acc]
  ELSE LET d == Decrypt(key, ReaderNonce(nonce_prefix, counter),
                        SubSeq(file, pos + 1, pos + file[pos].v))
       IN IF ~d.ok THEN [ok |-> FALSE, comp |-> << >>]
          ELSE ReadChunks(file, pos + 1 + file[pos].v, key, nonce_prefix, counter + 1,
                          acc \o d.pt)

\* get_to_writer once the compressed stream is at hand: decompress into the
\* hashing writer and compare the digest
GetDecoded(comp, digest) ==
  IF ~Decompress(comp).ok THEN [code |-> "Integrity", bytes |-> << >>]
  ELSE IF Sha256(Decompress(comp).bytes) # digest
  THEN [code |-> "Integrity", bytes |-> << >>]
  ELSE [code |-> "Ok", bytes |-> Decompress(comp).bytes]

\* get_to_writer, the legacy path: the whole file is one ciphertext
GetLegacy(file, key, digest) ==
  IF ~Decrypt(key, PrefixNonce(DeriveNoncePrefix(key, digest)), file).ok
  THEN [code |-> "Crypto", bytes |-> << >>]
  ELSE GetDecoded(Decrypt(key, PrefixNonce(DeriveNoncePrefix(key, digest)), file).pt,
                  digest)

\* get_to_writer, the streaming path once the chunks were read
GetStreamed(chunks, digest) ==
  IF ~chunks.ok THEN [code |-> "Integrity", bytes |-> << >>]
  ELSE GetDecoded(chunks.comp, digest)

\* get_to_writer on an opened file
GetFile(file, key, digest) ==
  IF Len(file) < 3 \/ file[1] # FILE_MAGIC THEN GetLegacy(file, key, digest)
  ELSE IF file[2] # FILE_VERSION THEN [code |-> "Integrity", bytes |-> << >>]
  ELSE GetStreamed(ReadChunks(file, 4, key, DeriveNoncePrefix(key, digest), 0, << >>),
                   digest)

\* BlobStore::get / get_to_writer on the directory fs
GetToWriter(fs, key, digest) ==
  IF PathFor(digest) \notin DOMAIN fs THEN [code |-> "NotFound", bytes |-> << >>]
  ELSE GetFile(fs[PathFor(digest)], key, digest)

\* BlobStore::exists
Exists(fs, digest) == PathFor(digest) \in DOMAIN fs

\* the directory without the paths of the set gone
RemoveFiles(fs, gone) == [q \in DOMAIN fs \ gone |-> fs[q]]

\* BlobStore::cleanup_incomplete: the directory without the .incomplete files
\* under sha256/
CleanupIncomplete(fs) ==
  RemoveFiles(fs, {q \in DOMAIN fs : q.dir = "sha256" /\ q.ext = "incomplete"})

\* a faulty variant of Rename: the file is copied and the old name stays
RenameKeepsOld(fs, from, to) == MapInsert(fs, to, fs[from])

\* fs::rename(from, to): the file takes the new name, replacing what was there
Rename(fs, from, to) == RemoveFiles(MapInsert(fs, to, fs[from]), {from})

\* the contents put is given: the sequences of up to MaxBlob bytes
Blobs == {[i \in 1..n |-> "x"] : n \in 0..MaxBlob}

\* the smallest i from lo on for which compressed-<i>.tmp does not exist
RECURSIVE FirstFree(_, _)
FirstFree(fs, i) == IF TmpPath(i) \in DOMAIN fs THEN FirstFree(fs, i + 1) ELSE i

\* what the blob store leaves alone
ServiceUnchanged ==
  UNCHANGED << wal, NEXT_ID, now, environ, seen_ids, last_event_id_by_run, usage_by_run,
               usage_by_run_agent, run_start_ts_by_run, policy, budget, budgets_by_run,
               writers,
               epoch, stores, timers, calls >>

\* put_reader, lines 336-353: the compressed temp file is created under a name
\* that is free (create_new, retried on AlreadyExists)
PutStart ==
  /\ put = None
  /\ Cardinality({q \in DOMAIN files : q.dir = ".tmp"}) <= MaxTmp
  /\ \E bytes \in Blobs :
       put' = Some([pc |-> "compress", bytes |-> bytes,
                    compressed_tmp |-> TmpPath(FirstFree(files, 0)),
                    digest |-> None, todo |-> << >>])
  /\ files' = MapInsert(files, TmpPath(FirstFree(files, 0)), << >>)
  /\ UNCHANGED << req, resp >>
  /\ ServiceUnchanged

\* put_reader, lines 354-376: the input is hashed and compressed into the temp
\* file, the file is synced, the digest is final
PutCompress ==
  /\ IsSome(put) /\ Unwrap(put).pc = "compress"
  /\ files' = [files EXCEPT ![Unwrap(put).compressed_tmp] = Compress(Unwrap(put).bytes)]
  /\ put' = Some([Unwrap(put) EXCEPT !.pc = "exists",
                                      !.digest = Some(Sha256(Unwrap(put).bytes))])
  /\ UNCHANGED << req, resp >>
  /\ ServiceUnchanged

\* put_reader, lines 379-382: the final path exists, the digest is returned
PutExists ==
  /\ IsSome(put) /\ Unwrap(put).pc = "exists"
  /\ PathFor(Unwrap(Unwrap(put).digest)) \in DOMAIN files
  /\ put' = None
  /\ req' = Some([op |-> "put", bytes |-> Unwrap(put).bytes])
  /\ resp' = Some([code |-> "Ok", digest |-> Unwrap(Unwrap(put).digest)])
  /\ UNCHANGED files
  /\ ServiceUnchanged

\* put_reader, lines 384-396: the final path does not exist; the .incomplete file
\* is created, or truncated if one was left behind
PutCreate ==
  /\ IsSome(put) /\ Unwrap(put).pc = "exists"
  /\ PathFor(Unwrap(Unwrap(put).digest)) \notin DOMAIN files
  /\ files' = MapInsert(files, IncompletePath(Unwrap(Unwrap(put).digest)), << >>)
  /\ put' = Some([Unwrap(put) EXCEPT
                    !.pc = "write",
                    !.todo = FileWrites(KeyBytes, Unwrap(Unwrap(put).digest),
                                        files[Unwrap(put).compressed_tmp])])
  /\ UNCHANGED << req, resp >>
  /\ ServiceUnchanged

\* put_reader, lines 398-440: one write_all on the .incomplete file.  When the
\* file is gone (removed by cleanup_incomplete) the writes go to the unlinked
\* file and leave no trace in the directory.
PutWrite ==
  /\ IsSome(put) /\ Unwrap(put).pc = "write" /\ Unwrap(put).todo # << >>
  /\ files' = IF IncompletePath(Unwrap(Unwrap(put).digest)) \in DOMAIN files
              THEN [files EXCEPT ![IncompletePath(Unwrap(Unwrap(put).digest))] =
                                    @ \o Head(Unwrap(put).todo)]
              ELSE files
  /\ put' = Some([Unwrap(put) EXCEPT !.todo = Tail(@)])
  /\ UNCHANGED << req, resp >>
  /\ ServiceUnchanged

\* put_reader, line 441: out.sync_all()
PutSync ==
  /\ IsSome(put) /\ Unwrap(put).pc = "write" /\ Unwrap(put).todo = << >>
  /\ put' = Some([Unwrap(put) EXCEPT !.pc = "rename"])
  /\ UNCHANGED << files, req, resp >>
  /\ ServiceUnchanged

\* put_reader, lines 444-462: the rename, the sync of the directory, the removal
\* of the compressed temp file, Ok(digest)
PutRename ==
  /\ IsSome(put) /\ Unwrap(put).pc = "rename"
  /\ IncompletePath(Unwrap(Unwrap(put).digest)) \in DOMAIN files
  /\ files' = RemoveFiles(Rename(files, IncompletePath(Unwrap(Unwrap(put).digest)),
                                 PathFor(Unwrap(Unwrap(put).digest))),
                          {Unwrap(put).compressed_tmp})
  /\ put' = None
  /\ req' = Some([op |-> "put", bytes |-> Unwrap(put).bytes])
  /\ resp' = Some([code |-> "Ok", digest |-> Unwrap(Unwrap(put).digest)])
  /\ ServiceUnchanged

\* put_reader, line 453: the rename fails because the .incomplete file is gone
PutRenameFails ==
  /\ IsSome(put) /\ Unwrap(put).pc = "rename"
  /\ IncompletePath(Unwrap(Unwrap(put).digest)) \notin DOMAIN files
  /\ put' = None
  /\ req' = Some([op |-> "put", bytes |-> Unwrap(put).bytes])
  /\ resp' = Some([code |-> "Io"])
  /\ UNCHANGED files
  /\ ServiceUnchanged

\* the process dies in the middle of a put: the files stay as they are
PutCrash ==
  /\ IsSome(put)
  /\ put' = None
  /\ UNCHANGED << files, req, resp >>
  /\ ServiceUnchanged

\* BlobStore::get(digest)
BlobGet ==
  /\ \E bytes \in Blobs :
       /\ req' = Some([op |-> "get", digest |-> Sha256(bytes)])
       /\ resp' = Some(GetToWriter(files, KeyBytes, Sha256(bytes)))
  /\ UNCHANGED << files, put,
                  epoch, stores, timers, calls >>
  /\ ServiceUnchanged

\* BlobStore::exists(digest)
BlobExists ==
  /\ \E bytes \in Blobs :
       /\ req' = Some([op |-> "exists", digest |-> Sha256(bytes)])
       /\ resp' = Some([code |-> "Ok", exists |-> Exists(files, Sha256(bytes))])
  /\ UNCHANGED << files, put,
                  epoch, stores, timers, calls >>
  /\ ServiceUnchanged

\* BlobStore::cleanup_incomplete()
BlobCleanup ==
  /\ files' = CleanupIncomplete(files)
  /\ req' = Some([op |-> "cleanup_incomplete"])
  /\ resp' = Some([code |-> "Ok",
                   removed |-> Cardinality(DOMAIN files) - Cardinality(DOMAIN files')])
  /\ UNCHANGED put
  /\ ServiceUnchanged

NextBlob ==
  \/ PutStart
  \/ PutCompress
  \/ PutExists
  \/ PutCreate
  \/ PutWrite
  \/ PutSync
  \/ PutRename
  \/ PutRenameFails
  \/ PutCrash
  \/ BlobGet
  \/ BlobExists
  \/ BlobCleanup

SpecBlob == Init /\ [][NextBlob]_vars

\* the concatenation of a sequence of buffers
RECURSIVE Flatten(_)
Flatten(bufs) == IF bufs = << >> THEN << >> ELSE Head(bufs) \o Flatten(Tail(bufs))

\* the bytes of the blob file a complete put of bytes writes under key
Stored(key, bytes) == Flatten(FileWrites(key, Sha256(bytes), Compress(bytes)))

\* the keys a store may be opened with
Keys == {"k1", "k2"}

\* the files of the blob layout that belong to a digest
BlobFilesOf(fs, digest) == {q \in DOMAIN fs : q.dir = "sha256" /\ q.name = digest}

\* a step in which a put returns Ok(digest)
PutReturns == PutExists \/ PutRename

\* C15: for any bytes b, the empty sequence included, and any key, get(put(b))
\* returns exactly b, and the digest put returns is SHA-256(b)
C15_RoundTrip ==
  [][PutReturns =>
       /\ Unwrap(resp').digest = Sha256(Unwrap(req').bytes)
       /\ GetToWriter(files', KeyBytes, Unwrap(resp').digest)
            = [code |-> "Ok", bytes |-> Unwrap(req').bytes]
       /\ \A k \in Keys :
            GetFile(Stored(k, Unwrap(req').bytes), k, Sha256(Unwrap(req').bytes))
              = [code |-> "Ok", bytes |-> Unwrap(req').bytes]]_vars

\* a put has returned, and the store holds the empty blob and a blob of several
\* chunks
C15_Witness ==
  /\ IsSome(req) /\ Unwrap(req).op = "put"
  /\ IsSome(resp) /\ Unwrap(resp).code = "Ok"
  /\ PathFor(Sha256(<< >>)) \in DOMAIN files
  /\ \E b \in Blobs :
       /\ Len(Compress(b)) > CHUNK_SIZE
       /\ PathFor(Sha256(b)) \in DOMAIN files

\* C16: put is idempotent: a put of content the store already holds returns the
\* digest the first put returned, SHA-256 of the content; no step of it changes
\* the bytes of a blob file that exists; and when a put returns there is a
\* single file for the digest in the blob layout, the blob file
C16_PutIdempotent ==
  [][/\ \A q \in DOMAIN files :
          (q.dir = "sha256" /\ q.ext = "")
            => (q \in DOMAIN files' /\ files'[q] = files[q])
     /\ PutReturns =>
          /\ Unwrap(resp').digest = Sha256(Unwrap(req').bytes)
          /\ BlobFilesOf(files', Unwrap(resp').digest)
               = {PathFor(Unwrap(resp').digest)}]_vars

\* a put has returned through the branch of the existing final path: its
\* compressed temp file is still there, the blob file is the one the first put
\* wrote
C16_Witness ==
  /\ put = None
  /\ IsSome(req) /\ Unwrap(req).op = "put"
  /\ IsSome(resp) /\ Unwrap(resp).code = "Ok"
  /\ PathFor(Unwrap(resp).digest) \in DOMAIN files
  /\ files[PathFor(Unwrap(resp).digest)] = Stored(KeyBytes, Unwrap(req).bytes)
  /\ \E q \in DOMAIN files : q.dir = ".tmp" /\ files[q] = Compress(Unwrap(req).bytes)

\* the digests of the contents of the model
BlobDigests == {Sha256(b) : b \in Blobs}

\* C17: at every point of a put, and after a crash at any of its steps, a final
\* blob path that exists holds a complete blob: get succeeds on it and the
\* content hashes to the digest in the path.  get and exists answer the same
\* with and without the .incomplete files.
C17_FinalAbsentOrComplete ==
  /\ \A q \in DOMAIN files :
       (q.dir = "sha256" /\ q.ext = "")
         => /\ GetToWriter(files, KeyBytes, q.name).code = "Ok"
            /\ Sha256(GetToWriter(files, KeyBytes, q.name).bytes) = q.name
  /\ \A d \in BlobDigests :
       /\ GetToWriter(files, KeyBytes, d) = GetToWriter(CleanupIncomplete(files), KeyBytes, d)
       /\ Exists(files, d) = Exists(CleanupIncomplete(files), d)

\* a put has crashed in the middle of its writes: a partial .incomplete file is
\* left, there is no final file for the digest, and get answered NotFound
C17_Witness ==
  /\ put = None
  /\ \E b \in Blobs :
       /\ IncompletePath(Sha256(b)) \in DOMAIN files
       /\ Len(files[IncompletePath(Sha256(b))]) > 3
       /\ Len(files[IncompletePath(Sha256(b))]) < Len(Stored(KeyBytes, b))
       /\ PathFor(Sha256(b)) \notin DOMAIN files
       /\ req = Some([op |-> "get", digest |-> Sha256(b)])
       /\ resp = Some([code |-> "NotFound", bytes |-> << >>])

\* the fields a field of a blob file can turn into when one of its bytes is
\* altered: a length prefix becomes another length, any other field a value that
\* differs from what was written
Altered(e) ==
  IF e.f = "len"
  THEN {LenField(n) : n \in {e.v - 1, e.v + 1, e.v + 16}}
  ELSE {[f |-> "altered", was |-> e]}

\* one byte of a stored blob file is altered behind the store's back, in a store
\* whose blob files are all as put wrote them
Tamper ==
  /\ put = None
  /\ \A c \in Blobs :
       PathFor(Sha256(c)) \in DOMAIN files
         => files[PathFor(Sha256(c))] = Stored(KeyBytes, c)
  /\ \E b \in Blobs :
       /\ PathFor(Sha256(b)) \in DOMAIN files
       /\ files[PathFor(Sha256(b))] = Stored(KeyBytes, b)
       /\ \E i \in 1..Len(Stored(KeyBytes, b)) :
            \E e \in Altered(Stored(KeyBytes, b)[i]) :
              files' = [files EXCEPT ![PathFor(Sha256(b))][i] = e]
  /\ UNCHANGED << put, req, resp >>
  /\ ServiceUnchanged

NextTamper ==
  \/ PutStart
  \/ PutCompress
  \/ PutExists
  \/ PutCreate
  \/ PutWrite
  \/ PutSync
  \/ PutRename
  \/ BlobGet
  \/ Tamper

SpecTamper == Init /\ [][NextTamper]_vars

\* the blob file of the content b differs from what put wrote in one place
AlteredFile(fs, b) ==
  /\ PathFor(Sha256(b)) \in DOMAIN fs
  /\ Len(fs[PathFor(Sha256(b))]) = Len(Stored(KeyBytes, b))
  /\ Cardinality({i \in 1..Len(Stored(KeyBytes, b)) :
                    fs[PathFor(Sha256(b))][i] # Stored(KeyBytes, b)[i]}) = 1

\* C18: if any byte of a stored blob file is altered after put, get(digest)
\* fails with an Integrity error
C18_TamperIsIntegrity ==
  [][\A b \in Blobs :
       (BlobGet /\ Unwrap(req').digest = Sha256(b) /\ AlteredFile(files, b))
         => Unwrap(resp').code = "Integrity"]_vars

\* C18, what the code does for the bytes of the chunk_size field: get returns
\* the data
C18_ChunkSizeIgnored ==
  /\ IsSome(req) /\ Unwrap(req).op = "get"
  /\ \E b \in Blobs :
       /\ Unwrap(req).digest = Sha256(b)
       /\ AlteredFile(files, b)
       /\ files[PathFor(Sha256(b))][3] # ChunkSizeField
       /\ resp = Some([code |-> "Ok", bytes |-> b])

\* C18, what the code does for the bytes of the magic: get fails with Crypto
C18_MagicIsCrypto ==
  /\ IsSome(req) /\ Unwrap(req).op = "get"
  /\ \E b \in Blobs :
       /\ Unwrap(req).digest = Sha256(b)
       /\ AlteredFile(files, b)
       /\ files[PathFor(Sha256(b))][1] # FILE_MAGIC
       /\ resp = Some([code |-> "Crypto", bytes |-> << >>])

\* C18, what the code does for the bytes of the chunks and of the version: get
\* fails with Integrity
C18_ChunkIsIntegrity ==
  [][\A b \in Blobs :
       (/\ BlobGet /\ Unwrap(req').digest = Sha256(b) /\ AlteredFile(files, b)
        /\ files[PathFor(Sha256(b))][1] = FILE_MAGIC
        /\ files[PathFor(Sha256(b))][3] = ChunkSizeField)
         => Unwrap(resp').code = "Integrity"]_vars

----------------------------------------------------------------------------
(* crates/plugin_host: ManifestVerifier::verify.                            *)
(* A string is a sequence of characters.  The lengths are scaled down: a     *)
(* digest is one byte, two hex characters, and a signature may be            *)
(* MAX_SIG_LEN characters long.                                              *)

\* the number of hex characters of a digest, scaled down from 64
DIGEST_HEX_LEN == 2

\* MAX_SIG_LEN, scaled down from 16 KiB
MAX_SIG_LEN == 2

\* the characters of the digest strings: a hex digit, an upper-case hex digit,
\* a blank, a character that is no hex digit
DigestChars == {"a", "B", " ", "g"}

\* the characters of the signature strings: a character of the base64 alphabet,
\* a blank, a character outside the alphabet
SigChars == {"Q", " ", "!"}

\* the module bytes of the model
Wasms == {<< >>, << "w" >>}

\* sha2::Sha256 on the module bytes of the model: two different digests
Sha256Wasm(wasm) == IF wasm = << >> THEN << << "a", "b" >> >> ELSE << << "b", "a" >> >>

\* str::trim, one end: the string without its leading blanks
RECURSIVE TrimStart(_)
TrimStart(s) == IF s # << >> /\ Head(s) = " " THEN TrimStart(Tail(s)) ELSE s

\* the string read backwards
RECURSIVE Reverse(_)
Reverse(s) == IF s = << >> THEN << >> ELSE Reverse(Tail(s)) \o << Head(s) >>

\* str::trim
TrimStr(s) == Reverse(TrimStart(Reverse(TrimStart(s))))

\* char::to_ascii_lowercase
LowerChar(c) == IF c = "B" THEN "b" ELSE c

\* str::to_ascii_lowercase
ToAsciiLowercase(s) == [i \in 1..Len(s) |-> LowerChar(s[i])]

\* char::is_ascii_hexdigit
IsAsciiHexdigit(c) == c \in {"a", "b", "B"}

\* hex::decode of an even number of hex digits: one byte per two digits
RECURSIVE HexDecode(_)
HexDecode(s) ==
  IF Len(s) < 2 THEN << >>
  ELSE << << LowerChar(s[1]), LowerChar(s[2]) >> >> \o HexDecode(SubSeq(s, 3, Len(s)))

\* normalize_and_validate_digest, on the normalized string
ValidateDigest(norm) ==
  IF Len(norm) # DIGEST_HEX_LEN \/ \E i \in 1..Len(norm) : ~IsAsciiHexdigit(norm[i])
  THEN [ok |-> FALSE, bytes |-> << >>]
  ELSE [ok |-> TRUE, bytes |-> HexDecode(norm)]

\* normalize_and_validate_digest
NormalizeAndValidateDigest(s) == ValidateDigest(ToAsciiLowercase(TrimStr(s)))

\* validate_signature_size
ValidateSignatureSize(s) == Len(TrimStr(s)) <= MAX_SIG_LEN

\* base64 STANDARD.decode(s).is_ok()
Base64Decodes(s) == \A i \in 1..Len(s) : s[i] = "Q"

\* verify, lines 430-468: the signature, once the digest matched.  There is no
\* signature the code accepts.
VerifySignature(signature) ==
  IF signature = None THEN "Ok"
  ELSE IF ~ValidateSignatureSize(TrimStr(Unwrap(signature))) THEN "OversizedSignature"
  ELSE IF ~Base64Decodes(TrimStr(Unwrap(signature))) THEN "InvalidSignature"
  ELSE "InvalidSignature"

\* a faulty variant of VerifyDigest: the signature is looked at before the digest
VerifyDigestSignatureFirst(manifest, wasm, expected) ==
  IF ~expected.ok THEN "InvalidDigestFormat"
  ELSE IF VerifySignature(manifest.signature) # "Ok" THEN VerifySignature(manifest.signature)
  ELSE IF Sha256Wasm(wasm) # expected.bytes THEN "DigestMismatch"
  ELSE "Ok"

\* verify, lines 397-428: the format of the digest and its comparison with the
\* digest of the module
VerifyDigest(manifest, wasm, expected) ==
  IF ~expected.ok THEN "InvalidDigestFormat"
  ELSE IF Sha256Wasm(wasm) # expected.bytes THEN "DigestMismatch"
  ELSE VerifySignature(manifest.signature)

\* a faulty variant of Verify: the presence of signature and SBOM is not asked for
VerifyWithoutGate(verifier, manifest, wasm) ==
  VerifyDigest(manifest, wasm, NormalizeAndValidateDigest(manifest.wasm_digest))

\* ManifestVerifier::verify
Verify(verifier, manifest, wasm) ==
  IF verifier.require_signed_plugins /\ manifest.signature = None THEN "MissingSignature"
  ELSE IF verifier.require_signed_plugins /\ manifest.sbom_ref = None THEN "MissingSbom"
  ELSE VerifyDigest(manifest, wasm, NormalizeAndValidateDigest(manifest.wasm_digest))

\* the strings of up to n characters of the set chars
StringsOver(chars, n) == UNION {[1..k -> chars] : k \in 0..n}

\* the manifests of the model
Manifests ==
  [name : {"demo"}, version : {"1.0.0"},
   wasm_digest : StringsOver(DigestChars, MaxDigestLen),
   signature : {None} \cup {Some(s) : s \in StringsOver(SigChars, MaxSigLen)},
   sbom_ref : {None, Some("sbom.json")}]

\* the calls of verify of the model
VerifyCalls ==
  [op : {"verify"}, verifier : [require_signed_plugins : BOOLEAN],
   manifest : Manifests, wasm : Wasms]

\* a call of verify is about to be made
InitVerify ==
  /\ wal = << >> /\ NEXT_ID = 1 /\ now = 0
  /\ environ \in Environments
  /\ seen_ids = {}
  /\ last_event_id_by_run = EmptyMap /\ usage_by_run = EmptyMap
  /\ usage_by_run_agent = EmptyMap /\ run_start_ts_by_run = EmptyMap
  /\ policy = EngineNew
  /\ budget = ManagerNew(environ.with_budget)
  /\ budgets_by_run = EmptyMap
  /\ req \in {Some(c) : c \in VerifyCalls}
  /\ resp = None
  /\ writers = << >> /\ files = EmptyMap /\ put = None
  /\ epoch = 0 /\ stores = << >> /\ timers = << >>
  /\ calls = << >>

\* the call returns
VerifyCall ==
  /\ IsSome(req) /\ Unwrap(req).op = "verify" /\ resp = None
  /\ resp' = Some([code |-> Verify(Unwrap(req).verifier, Unwrap(req).manifest,
                                   Unwrap(req).wasm)])
  /\ UNCHANGED << req, files, put,
                  epoch, stores, timers, calls >>
  /\ ServiceUnchanged

NextVerify == VerifyCall

SpecVerify == InitVerify /\ [][NextVerify]_vars

\* the wasm_digest of the manifest is not the SHA-256 of the module: it is
\* malformed, or it is the hex form of other bytes
DigestDiffers(manifest, wasm) ==
  \/ ~NormalizeAndValidateDigest(manifest.wasm_digest).ok
  \/ NormalizeAndValidateDigest(manifest.wasm_digest).bytes # Sha256Wasm(wasm)

\* the manifest passes the fail-fast check of signature and SBOM presence
PastGate(verifier, manifest) ==
  ~verifier.require_signed_plugins
  \/ (IsSome(manifest.signature) /\ IsSome(manifest.sbom_ref))

SignatureVerifies(signature) == IsSome(signature) /\ VerifySignature(signature) = "Ok"

\* C20: verify returns Ok only for a manifest whose wasm_digest equals SHA-256
\* of the module bytes and, when the verifier requires signed plugins, whose
\* signature is present and verifies and whose SBOM reference is present
C20_OkOnlyIfVerified ==
  [][(VerifyCall /\ Unwrap(resp').code = "Ok")
       => /\ ~DigestDiffers(Unwrap(req).manifest, Unwrap(req).wasm)
          /\ Unwrap(req).verifier.require_signed_plugins
               => /\ SignatureVerifies(Unwrap(req).manifest.signature)
                  /\ IsSome(Unwrap(req).manifest.sbom_ref)]_vars

\* verify has returned Ok: the digest, written in upper case with a blank in
\* front, is that of the module
C20_Witness ==
  /\ IsSome(req) /\ Unwrap(req).op = "verify"
  /\ Unwrap(req).wasm = << "w" >>
  /\ Unwrap(req).manifest.wasm_digest = << " ", "B", "a" >>
  /\ resp = Some([code |-> "Ok"])

----------------------------------------------------------------------------
(* crates/plugin_host: PluginRunner::invoke_i32_2 and its timeout thread.   *)
(* The Engine is shared by every invocation of a runner and of its clones;   *)
(* its epoch is one counter.  A Store traps at its next check once the        *)
(* epoch has reached the deadline of the Store.                               *)

\* PluginRunner::timeout_ms, scaled down from 500 ms to ticks of the clock
TIMEOUT_MS == 2

\* the invocations of the model
Invocations == 1..MaxInvokes

\* what the runner leaves alone
RunnerUnchanged ==
  UNCHANGED << wal, NEXT_ID, environ, seen_ids, last_event_id_by_run, usage_by_run,
               usage_by_run_agent, run_start_ts_by_run, policy, budget, budgets_by_run,
               req, resp, writers, files, put, calls >>

\* Store::set_epoch_deadline(ticks_beyond_current): the deadline is the current
\* epoch of the engine plus the ticks
EpochDeadline(current, ticks_beyond_current) == current + ticks_beyond_current

\* invoke_i32_2, lines 179-192: the Store is created with fuel and an epoch
\* deadline one tick ahead, the timeout thread is spawned and goes to sleep
InvokeStart(i) ==
  /\ i \notin DOMAIN stores
  /\ stores' = MapInsert(stores, i, [pc |-> "running",
                                    epoch_deadline |-> EpochDeadline(epoch, 1)])
  /\ timers' = MapInsert(timers, i, [pc |-> "sleep", wake_at |-> now + TIMEOUT_MS])
  /\ UNCHANGED << now, epoch >>
  /\ RunnerUnchanged

\* the timeout thread, lines 190-191: once the sleep is over the epoch of the
\* engine is incremented, whether or not the invocation is still running
TimerFire(i) ==
  /\ i \in DOMAIN timers /\ timers[i].pc = "sleep"
  /\ now >= timers[i].wake_at
  /\ epoch' = epoch + 1
  /\ timers' = [timers EXCEPT ![i].pc = "done"]
  /\ UNCHANGED << now, stores >>
  /\ RunnerUnchanged

\* invoke_i32_2, lines 237-238: the call returns Ok(v)
InvokeReturn(i) ==
  /\ i \in DOMAIN stores /\ stores[i].pc = "running"
  /\ stores' = [stores EXCEPT ![i].pc = "ok"]
  /\ UNCHANGED << now, epoch, timers >>
  /\ RunnerUnchanged

\* invoke_i32_2, lines 239-246: the guest reaches an epoch check with the epoch
\* of the engine at or past the deadline of its Store and traps
InvokeInterrupt(i) ==
  /\ i \in DOMAIN stores /\ stores[i].pc = "running"
  /\ epoch >= stores[i].epoch_deadline
  /\ stores' = [stores EXCEPT ![i].pc = "interrupted"]
  /\ UNCHANGED << now, epoch, timers >>
  /\ RunnerUnchanged

\* the clock advances
RunnerTick ==
  /\ now < MaxNow
  /\ now' = now + 1
  /\ UNCHANGED << epoch, stores, timers >>
  /\ RunnerUnchanged

NextRunner ==
  \/ \E i \in Invocations : InvokeStart(i)
  \/ \E i \in Invocations : TimerFire(i)
  \/ \E i \in Invocations : InvokeReturn(i)
  \/ \E i \in Invocations : InvokeInterrupt(i)
  \/ RunnerTick

SpecRunner == Init /\ [][NextRunner]_vars

\* C21: an invocation is interrupted for timeout only after its own wall-time
\* deadline has elapsed, never because the timeout thread of an earlier or
\* concurrent invocation fired
C21_InterruptOnlyAfterOwnDeadline ==
  [][\A i \in Invocations :
       (/\ i \in DOMAIN stores /\ stores[i].pc = "running"
        /\ stores'[i].pc = "interrupted")
         => now >= timers[i].wake_at]_vars

\* C21, what the code does: an invocation is interrupted before its deadline,
\* while its own timeout thread is still asleep
C21_InterruptedByOtherTimer ==
  \E i \in DOMAIN stores :
    /\ stores[i].pc = "interrupted"
    /\ timers[i].pc = "sleep"
    /\ now < timers[i].wake_at

----------------------------------------------------------------------------
(* crates/policy: the engine on its own, loaded from policy files of up to   *)
(* MaxRules rules and asked for decisions.                                   *)

\* the action and the condition of the rules of the precedence scenarios: one
\* for each arm of the rule interpreter
RuleKinds ==
  { << "deny", << "ToolInvocation" >> >>, << "allow_but_flag", << "LLMPrompt" >> >>,
    << "modify", << "pii_detect" >> >> }

\* the priorities of the rules
Priorities == {0, 1}

\* the rules of the precedence scenarios, without their names: each kind at each
\* priority, and a rule of the highest priority that no arm of the interpreter
\* takes
RuleChoices ==
  {[action |-> k[1], when |-> k[2], priority |-> p] : k \in RuleKinds, p \in Priorities}
    \cup {[action |-> "deny", when |-> << "LLMPrompt" >>, priority |-> 1]}

\* the names of the rules, by position in the file
RuleNames == << "r1", "r2", "r3", "r4" >>

\* the lists of n rules
RuleLists(n) ==
  {[i \in 1..n |-> Rule(RuleNames[i], c[i].when, c[i].action,
                        Some(<< "m", RuleNames[i] >>), c[i].priority)] :
     c \in [1..n -> RuleChoices]}

\* the policy files that load: up to MaxRules rules, with and without an allowlist
ValidPolicyFiles ==
  [yaml_ok : {TRUE}, tool_allowlist : {None, Some(<< "Calc" >>)},
   rules : UNION {RuleLists(n) : n \in 0..MaxRules}]

\* policy files that are rejected: malformed YAML, an action that is not known,
\* an allowlist with the same tool twice, a rule without a name, a regex that
\* does not compile
RejectedPolicyFiles ==
  { [yaml_ok |-> FALSE, tool_allowlist |-> None, rules |-> << >>],
    [yaml_ok |-> TRUE, tool_allowlist |-> None,
     rules |-> << Rule("Bad", << "ToolInvocation" >>, "allow", None, 0) >>],
    [yaml_ok |-> TRUE, tool_allowlist |-> Some(<< "Calc", "calc" >>), rules |-> << >>],
    [yaml_ok |-> TRUE, tool_allowlist |-> None,
     rules |-> << Rule(" ", << "ToolInvocation" >>, "deny", None, 0) >>],
    [yaml_ok |-> TRUE, tool_allowlist |-> None,
     rules |-> << [Rule("Re", << "pii_detect" >>, "modify", None, 0)
                     EXCEPT !.transform = Some("regex:(")] >>] }

\* payloads that name a tool on the allowlist in another case, and a tool that
\* is not on it next to an SSN-like pattern
CalcPayload == [text |-> << "w" >>, tool |-> Some("Calc")]
PiiToolPayload == [text |-> << "My SSN is", SSN >>, tool |-> Some("Shell")]

\* the envelopes the engine is asked about
PolicyEnvelopes ==
  {Envelope("e1", "agent_task", p, 0, 1, None) :
     p \in {CleanPayload, PiiPayload, ToolPayload, CalcPayload, PiiToolPayload}}

\* what the engine leaves alone
EngineUnchanged ==
  UNCHANGED << wal, NEXT_ID, now, environ, seen_ids, last_event_id_by_run, usage_by_run,
               usage_by_run_agent, run_start_ts_by_run, budget, budgets_by_run,
               writers, files, put, epoch, stores, timers, calls >>

\* Engine::load_from_yaml_path on a file of the model
PolicyLoad ==
  /\ \E pf \in ValidPolicyFiles \cup RejectedPolicyFiles :
       /\ policy' = LoadFromYaml(policy, pf).engine
       /\ req' = Some([op |-> "load_from_yaml_path"])
       /\ resp' = Some([ok |-> LoadFromYaml(policy, pf).ok])
  /\ EngineUnchanged

\* Engine::pre_submit_task on an envelope of the model
PolicyEvaluate ==
  /\ \E e \in PolicyEnvelopes :
       /\ req' = Some([op |-> "pre_submit_task", envelope |-> e])
       /\ resp' = Some([decision |-> PreSubmitTask(policy, e)])
  /\ UNCHANGED policy
  /\ EngineUnchanged

NextPolicy ==
  \/ PolicyLoad
  \/ PolicyEvaluate

SpecPolicy == Init /\ [][NextPolicy]_vars

\* the positions of the rules of the engine that match
Matching(engine, e) ==
  {i \in 1..Len(engine.rules) : IsSome(RuleMatch(engine.rules[i], e))}

\* the decision rule i of the engine makes
DecisionOf(engine, e, i) == Unwrap(RuleMatch(engine.rules[i], e))

\* rule i comes before rule j in the precedence: higher priority, then the more
\* restrictive kind of decision, then the earlier position
Precedes(engine, e, i, j) ==
  \/ engine.rules[i].priority > engine.rules[j].priority
  \/ /\ engine.rules[i].priority = engine.rules[j].priority
     /\ Severity(DecisionOf(engine, e, i).kind) > Severity(DecisionOf(engine, e, j).kind)
  \/ /\ engine.rules[i].priority = engine.rules[j].priority
     /\ Severity(DecisionOf(engine, e, i).kind) = Severity(DecisionOf(engine, e, j).kind)
     /\ i <= j

\* the decision is that of the matching rule that comes first in the precedence
IsDecisionOfFirst(engine, e, d) ==
  \E i \in Matching(engine, e) :
    /\ \A j \in Matching(engine, e) : Precedes(engine, e, i, j)
    /\ d = DecisionOf(engine, e, i)

\* the envelope gets past the first three stages of the pipeline: nothing to
\* redact, a policy is loaded, the tool allowlist enforcement has nothing to say
ReachesRules(engine, e) ==
  /\ ScanAndRedact(e, "builtin_redact_pii").kind # "Modify"
  /\ engine.policy_loaded
  /\ CheckToolAllowlist(engine, e) = None

\* C22: among the rules that match an envelope, the engine returns the decision
\* of the rule with the highest priority; ties are broken by the most
\* restrictive kind, remaining ties by the earliest rule in file order
C22_HighestPriorityDecides ==
  [][(PolicyEvaluate /\ Matching(policy, Unwrap(req').envelope) # {})
       => IsDecisionOfFirst(policy, Unwrap(req').envelope, Unwrap(resp').decision)]_vars

\* C22 as the code has it: the same, for an envelope that the first three stages
\* of the pipeline pass on to the rule interpreter; and the decision of a rule
\* is of kind Deny or Allow, never Modify
C22_HighestPriorityAmongRules ==
  [][(/\ PolicyEvaluate
      /\ ReachesRules(policy, Unwrap(req').envelope)
      /\ Matching(policy, Unwrap(req').envelope) # {})
       => /\ IsDecisionOfFirst(policy, Unwrap(req').envelope, Unwrap(resp').decision)
          /\ Unwrap(resp').decision.kind \in {"Deny", "Allow"}]_vars

\* the engine has decided by a full tie: two matching rules of the same priority
\* and kind, and the decision is that of the first
C22_Witness ==
  /\ IsSome(req) /\ Unwrap(req).op = "pre_submit_task"
  /\ ReachesRules(policy, Unwrap(req).envelope)
  /\ Len(policy.rules) = 2
  /\ Matching(policy, Unwrap(req).envelope) = {1, 2}
  /\ policy.rules[1].priority = policy.rules[2].priority
  /\ policy.rules[1].action = "allow_but_flag" /\ policy.rules[2].action = "modify"
  /\ Unwrap(resp).decision.rule_name = Some("r1")

\* the step is a load that was rejected
LoadRejected ==
  /\ IsSome(req') /\ Unwrap(req').op = "load_from_yaml_path"
  /\ ~Unwrap(resp').ok

C24_WitnessUnloaded ==
  /\ IsSome(req) /\ Unwrap(req).op = "load_from_yaml_path"
  /\ ~Unwrap(resp).ok
  /\ ~policy.policy_loaded

----------------------------------------------------------------------------
(* The tool allowlist scenarios: the service with policies that carry an     *)
(* allowlist, and tasks that name tools.                                     *)

\* a payload that names the tool of the allowlist in lower case
LowerCalcPayload == [text |-> << "w" >>, tool |-> Some("calc")]

\* the policy files of the allowlist scenarios: an allowlist alone, an allowlist
\* with a rule that flags, and a deny rule on ToolInvocation without an allowlist
AllowlistPolicyFiles ==
  { [yaml_ok |-> TRUE, tool_allowlist |-> Some(<< "Calc" >>), rules |-> << >>],
    [yaml_ok |-> TRUE, tool_allowlist |-> Some(<< "Calc" >>),
     rules |-> << Rule("Flag Prompt", << "LLMPrompt" >>, "allow_but_flag", None, 10) >>],
    [yaml_ok |-> TRUE, tool_allowlist |-> None,
     rules |-> << Rule("Deny-Tools", << "ToolInvocation" >>, "deny", None, 0) >>] }

\* the tasks of the allowlist scenarios: no tool, a tool of the list in two
\* spellings, a tool that is not on it, and such a tool next to an SSN-like pattern
AllowlistSubmitTaskRequests ==
  [op : {"SubmitTask"}, authorization : {Some("tok")}, run_id : {"r1"},
   task : {Some(Envelope(id, "agent_task", p, 0, 1, None)) :
             id \in EnvIds,
             p \in {CleanPayload, CalcPayload, LowerCalcPayload, ToolPayload,
                    PiiToolPayload}}]

HandleAllowlistSubmitTask == NEXT_ID <= MaxWal /\ Handle(AllowlistSubmitTaskRequests)
LoadAllowlistPolicy == Load(AllowlistPolicyFiles)

NextAllowlist ==
  \/ HandleAllowlistSubmitTask
  \/ LoadAllowlistPolicy
  \/ Deliver

SpecAllowlist == Init /\ [][NextAllowlist]_vars

\* the task of the step names a tool that is not on the loaded allowlist
NamesToolOffList ==
  /\ ReachesPolicy
  /\ policy.policy_loaded /\ IsSome(policy.tool_allowlist)
  /\ IsSome(Task.payload_json.tool)
  /\ ToLowercase(Unwrap(Task.payload_json.tool)) \notin Unwrap(policy.tool_allowlist)

C23_ListedToolAccepted ==
  /\ Served("SubmitTask", "Ok")
  /\ IsSome(policy.tool_allowlist) /\ Unwrap(policy.tool_allowlist) = {"calc"}
  /\ Unwrap(Unwrap(req).task).payload_json = CalcPayload
  /\ TaskEnqueued(Payloads(wal), Unwrap(Unwrap(req).task).id) # {}

----------------------------------------------------------------------------
(* crates/budget: one Manager, charged and asked for its state *)

\* the limits a manager is configured with: every token limit, and no or the
\* smallest cost limit
ManagerEnvironments ==
  {[AGENT_AUTH_TOKEN |-> None, ORCA_MAX_TOKENS |-> None, ORCA_MAX_COST_MICROS |-> None,
    with_budget |-> BudgetConfig(mt, mc)] :
     mt \in {None} \cup {Some(m) : m \in 0..U64Max}, mc \in {None, Some(1)}}

\* the amounts of add_usage: nothing, little, and the largest u64
TokenAmounts == {0, 1, 2, U64Max}
CostAmounts == {0, 1}

\* what a call on the manager leaves alone
ManagerUnchanged ==
  UNCHANGED << wal, NEXT_ID, now, environ, seen_ids, last_event_id_by_run, usage_by_run,
               usage_by_run_agent, run_start_ts_by_run, policy, budgets_by_run,
               writers, files, put, epoch, stores, timers, calls >>

\* Manager::add_usage(tokens, cost_micros)
ManagerAddUsage ==
  /\ \E tk \in TokenAmounts, c \in CostAmounts :
       /\ budget' = AddUsage(budget, tk, c)
       /\ req' = Some([op |-> "add_usage", tokens |-> tk, cost_micros |-> c])
  /\ resp' = None
  /\ ManagerUnchanged

\* Manager::status()
ManagerStatus ==
  /\ req' = Some([op |-> "status"])
  /\ resp' = Some([state |-> Status(budget)])
  /\ UNCHANGED budget
  /\ ManagerUnchanged

NextManager ==
  \/ ManagerAddUsage
  \/ ManagerStatus

InitManager == InitWith(ManagerEnvironments)

SpecManager == InitManager /\ [][NextManager]_vars

\* count/limit compared with num/den as numbers; a missing limit is ratio 0
\* (and so is a limit of 0, for which the code does not divide)
Exceeds(count, limit, num, den) ==
  IsSome(limit) /\ Unwrap(limit) > 0 /\ count * den > num * Unwrap(limit)
Reaches(count, limit, num, den) ==
  IsSome(limit) /\ Unwrap(limit) > 0 /\ count * den >= num * Unwrap(limit)

\* the state the larger of the two ratios stands for
StateOfRatios(mgr) ==
  IF \/ Exceeds(mgr.tokens, mgr.cfg.max_tokens, 1, 1)
     \/ Exceeds(mgr.cost_micros, mgr.cfg.max_cost_micros, 1, 1) THEN "Exceeded"
  ELSE IF \/ Reaches(mgr.tokens, mgr.cfg.max_tokens, 90, 100)
          \/ Reaches(mgr.cost_micros, mgr.cfg.max_cost_micros, 90, 100) THEN "Warning90"
  ELSE IF \/ Reaches(mgr.tokens, mgr.cfg.max_tokens, 80, 100)
          \/ Reaches(mgr.cost_micros, mgr.cfg.max_cost_micros, 80, 100) THEN "Warning80"
  ELSE "Within"

\* status has just been asked
StatusAsked == IsSome(req) /\ Unwrap(req).op = "status" /\ IsSome(resp)

\* C25: for any counters and limits the budget state is Exceeded iff the larger
\* of tokens/max_tokens and cost_micros/max_cost_micros is above 1, otherwise
\* Warning90 iff it is at least 0.90, otherwise Warning80 iff it is at least
\* 0.80, otherwise Within, a missing limit counting as ratio 0
C25_StateOfRatios ==
  StatusAsked => Unwrap(resp).state = StateOfRatios(budget)

\* the same for counters and limits that an f64 holds exactly
C25_StateOfSmallRatios ==
  (/\ StatusAsked
   /\ budget.tokens <= Pow2(F64_MANTISSA_DIGITS)
   /\ IsSome(budget.cfg.max_tokens) => Unwrap(budget.cfg.max_tokens) <= Pow2(F64_MANTISSA_DIGITS)
   /\ budget.cost_micros <= Pow2(F64_MANTISSA_DIGITS))
    => Unwrap(resp).state = StateOfRatios(budget)

\* a counter one above a limit that an f64 no longer tells apart from it, and a
\* state that is not Exceeded
C25_OverLimitNotExceeded ==
  /\ StatusAsked
  /\ IsSome(budget.cfg.max_tokens)
  /\ budget.tokens = Unwrap(budget.cfg.max_tokens) + 1
  /\ Unwrap(resp).state = "Warning90"

\* the step is a call of add_usage
AddsUsage == IsSome(req') /\ Unwrap(req').op = "add_usage"

\* C26: add_usage(t, c) is a saturating add: each counter is never lower than
\* before the call and stops at the largest u64 instead of wrapping around
C26_AddUsageSaturates ==
  [][AddsUsage
       => /\ budget'.tokens >= budget.tokens
          /\ budget'.cost_micros >= budget.cost_micros
          /\ budget'.tokens = SaturatingAdd(budget.tokens, Unwrap(req').tokens)
          /\ budget'.cost_micros
               = SaturatingAdd(budget.cost_micros, Unwrap(req').cost_micros)]_vars

\* add_usage adds, modulo 2^64
C26_AddUsageWraps ==
  [][AddsUsage
       => /\ budget'.tokens = (budget.tokens + Unwrap(req').tokens) % (U64Max + 1)
          /\ budget'.cost_micros
               = (budget.cost_micros + Unwrap(req').cost_micros) % (U64Max + 1)
          /\ budget'.cfg = budget.cfg]_vars

\* a call of add_usage has left the token counter below the amount it added
C26_Wrapped ==
  /\ IsSome(req) /\ Unwrap(req).op = "add_usage"
  /\ budget.tokens < Unwrap(req).tokens

----------------------------------------------------------------------------
(* The budget scenarios with two runs *)

RunIds == {"r1", "r2"}

RunsStartRunRequests ==
  [op : {"StartRun"}, authorization : {Some("tok")}, workflow_id : RunIds,
   initial_task : {None}, budget : Budgets]

RunsSubmitTaskRequests ==
  [op : {"SubmitTask"}, authorization : {Some("tok")}, run_id : RunIds,
   task : {Some(e) : e \in BudgetEnvelopes}]

HandleRunsStartRun == NEXT_ID <= MaxWalRuns /\ Handle(RunsStartRunRequests)
HandleRunsSubmitTask == NEXT_ID <= MaxWalRuns /\ Handle(RunsSubmitTaskRequests)

NextRuns ==
  \/ HandleRunsStartRun
  \/ HandleRunsSubmitTask
  \/ LoadPermissivePolicy
  \/ Deliver

SpecRuns == InitBudget /\ [][NextRuns]_vars

\* the step serves a SubmitTask to run a that gets to the budget step
ChargesRun(a) == ReachesBudget /\ Unwrap(req').run_id = a

\* C27: budgets are isolated between runs: usage submitted to run A never
\* changes the budget counters or the budget state of a different run B
C27_RunsIsolated ==
  [][\A a \in RunIds : \A b \in RunIds \ {a} :
       ChargesRun(a)
         => /\ ManagerOf(b, budgets_by_run', budget') = ManagerOf(b, budgets_by_run, budget)
            /\ Status(ManagerOf(b, budgets_by_run', budget'))
                 = Status(ManagerOf(b, budgets_by_run, budget))]_vars

\* a run that has a manager of its own keeps it untouched by the usage submitted
\* to another run
C27_OwnManagerIsolated ==
  [][\A a \in RunIds : \A b \in RunIds \ {a} :
       (ChargesRun(a) /\ b \in DOMAIN budgets_by_run)
         => /\ b \in DOMAIN budgets_by_run'
            /\ budgets_by_run'[b] = budgets_by_run[b]]_vars

\* run r2, which was never charged, is refused for the usage submitted to r1
C27_RefusedForOtherRun ==
  /\ Served("SubmitTask", "ResourceExhausted")
  /\ Unwrap(req).run_id = "r2"
  /\ LET ps == Payloads(wal)
     IN /\ Events(ps, "usage_update") # {}
        /\ \A i \in Events(ps, "usage_update") : ps[i].run_id = Some("r1")
        /\ Events(ps, "budget_exceeded") = {Len(ps)}
        /\ ps[Len(ps)].run_id = Some("r2")

----------------------------------------------------------------------------
(* C28: the protocol version *)

\* the step serves a SubmitTask, or a StartRun with an initial task, whose
\* envelope is of a protocol version other than 1
CarriesOtherVersion ==
  \/ SubmitsEnvelope /\ Task.protocol_version # 1
  \/ /\ Handled("StartRun") /\ IsSome(Unwrap(req').initial_task)
     /\ Unwrap(Unwrap(req').initial_task).protocol_version # 1

\* the envelope of that step
Carried ==
  IF Unwrap(req').op = "SubmitTask" THEN Task ELSE Unwrap(Unwrap(req').initial_task)

\* C28: for any envelope with protocol_version other than 1, SubmitTask and
\* StartRun with that envelope as initial task are rejected with
\* FailedPrecondition, before any policy, budget or WAL step
C28_OtherVersionRejected ==
  [][CarriesOtherVersion
       => (Unwrap(resp').code = "FailedPrecondition" /\ NothingChanged)]_vars

\* C28 as the code has it: such a request is always rejected before any policy,
\* budget or WAL step; the code is FailedPrecondition when the request is
\* authenticated and the envelope is within its time to live, DeadlineExceeded
\* when the envelope is expired, Unauthenticated when the token is wrong
C28_OtherVersionRejectedInOrder ==
  [][CarriesOtherVersion
       => /\ NothingChanged
          /\ Unwrap(resp').code =
               IF ~Authenticated(Unwrap(req')) THEN "Unauthenticated"
               ELSE IF Expired(Carried) THEN "DeadlineExceeded"
               ELSE "FailedPrecondition"]_vars

\* a StartRun was rejected for the version of its initial task, with records in
\* the log
C28_Witness ==
  /\ Served("StartRun", "FailedPrecondition")
  /\ Unwrap(Unwrap(req).initial_task).protocol_version = 2
  /\ Unwrap(req).authorization = environ.AGENT_AUTH_TOKEN
  /\ Payloads(wal) # << >>

\* a SubmitTask was rejected for the version of its envelope, under a loaded policy
C28_WitnessSubmit ==
  /\ Served("SubmitTask", "FailedPrecondition")
  /\ Unwrap(Unwrap(req).task).protocol_version = 2
  /\ policy.policy_loaded

\* an envelope of another version was rejected as expired
C28_OtherVersionExpired ==
  /\ Served("SubmitTask", "DeadlineExceeded")
  /\ Unwrap(Unwrap(req).task).protocol_version = 2
  /\ Unwrap(req).authorization = environ.AGENT_AUTH_TOKEN

----------------------------------------------------------------------------
(* C29: what an accepted SubmitTask appends *)

\* the totals of the last usage_update of the run among the payloads ps, or
\* (0, 0) if there is none
LastUsage(ps, run_id) ==
  LET u == {i \in Events(ps, "usage_update") : ps[i].run_id = Some(run_id)}
  IN IF u = {} THEN << 0, 0 >>
     ELSE LET last == CHOOSE i \in u : \A j \in u : j <= i
          IN << ps[last].tokens, ps[last].cost_micros >>

\* the usage an envelope counts for: what it states, one token and no cost if
\* it states none
UsageOf(env) ==
  IF IsSome(env.usage)
  THEN << IF Unwrap(env.usage).tokens > 0 THEN Unwrap(env.usage).tokens ELSE 1,
          Unwrap(env.usage).cost_micros >>
  ELSE << 1, 0 >>

\* the step accepts a SubmitTask for an envelope id that is new
AcceptsNew == ReachesPolicy /\ Unwrap(resp').code = "Ok"

\* C29: for every SubmitTask that is accepted for a new envelope, the log
\* receives one usage_update record with the cumulative totals of the run (one
\* token more and the same cost when the envelope states no usage) and, after
\* it, the task_enqueued record of that envelope
C29_UsageThenEnqueued ==
  [][AcceptsNew
       => LET ps == Appended
              u == Events(ps, "usage_update")
              q == TaskEnqueued(ps, Task.id)
              before == LastUsage(Payloads(wal), Unwrap(req').run_id)
          IN /\ Cardinality(u) = 1 /\ Cardinality(q) = 1
             /\ \A i \in u :
                  /\ \A j \in q : i < j
                  /\ ps[i].run_id = Some(Unwrap(req').run_id)
                  /\ ps[i].tokens = before[1] + UsageOf(Task)[1]
                  /\ ps[i].cost_micros = before[2] + UsageOf(Task)[2]
             /\ \A j \in q : ps[j].run_id = Some(Unwrap(req').run_id)]_vars

\* the same with the totals counted from the start of the process: those of
\* the usage index, which a restart leaves empty
C29_UsageSinceStartThenEnqueued ==
  [][AcceptsNew
       => LET ps == Appended
              u == Events(ps, "usage_update")
              q == TaskEnqueued(ps, Task.id)
              before == OrInsertZero(usage_by_run, Unwrap(req').run_id)
          IN /\ Cardinality(u) = 1 /\ Cardinality(q) = 1
             /\ \A i \in u :
                  /\ \A j \in q : i < j
                  /\ ps[i].run_id = Some(Unwrap(req').run_id)
                  /\ ps[i].tokens = before[1] + UsageOf(Task)[1]
                  /\ ps[i].cost_micros = before[2] + UsageOf(Task)[2]
             /\ \A j \in q : ps[j].run_id = Some(Unwrap(req').run_id)]_vars

\* after a restart a task was accepted and the usage_update it appended carries
\* totals below those of an earlier usage_update of the run
C29_TotalsStartOver ==
  /\ Served("SubmitTask", "Ok")
  /\ LET ps == Payloads(wal)
     IN /\ Len(ps) >= 4
        /\ ps[Len(ps)].event = "task_enqueued"
        /\ ps[Len(ps) - 1].event = "usage_update"
        /\ \E i \in Events(ps, "usage_update") :
             /\ i < Len(ps) - 1
             /\ ps[i].run_id = ps[Len(ps) - 1].run_id
             /\ ps[i].tokens >= ps[Len(ps) - 1].tokens

\* a second task was accepted without stated usage after one that stated two
\* tokens: the log ends with usage_update(3, 1) and the task_enqueued record
C29_Witness ==
  /\ Served("SubmitTask", "Ok")
  /\ Unwrap(Unwrap(req).task).usage = None
  /\ LET ps == Payloads(wal)
     IN /\ Len(ps) >= 4
        /\ ps[Len(ps)].event = "task_enqueued"
        /\ Unwrap(ps[Len(ps)].envelope).id = Unwrap(Unwrap(req).task).id
        /\ ps[Len(ps) - 1].event = "usage_update"
        /\ ps[Len(ps) - 1].tokens = 3 /\ ps[Len(ps) - 1].cost_micros = 1

----------------------------------------------------------------------------
(* crates/orchestrator proxy: ProxyCapturedChannel, the client-side capture  *)
(* of external I/O. `wal` is the capture log; `req` is the call in progress  *)
(* with the outcomes io of its appends, `resp` the result the client gets.   *)

\* capture_enabled()
CaptureEnabled(e) == e.ORCA_CAPTURE_EXTERNAL_IO = Some("1")

\* bypass_to_direct()
BypassToDirect(e) == e.ORCA_BYPASS_TO_DIRECT = Some("1")

\* `let log = if capture_enabled() { self.log.clone() } else { None }`
CaptureLog(e) == IF CaptureEnabled(e) THEN e.capture_log ELSE None

\* a faulty variant of CaptureFailed: a failed append never stops the call
CaptureFailedOpen(append_failed, e) == FALSE

\* `__append_failed && !bypass_to_direct()`
CaptureFailed(append_failed, e) == append_failed /\ ~BypassToDirect(e)

\* the environments of the proxy: capture unset, on and off, the bypass unset
\* and on, with and without a capture sink
ProxyEnvironments ==
  [AGENT_AUTH_TOKEN : {None}, ORCA_MAX_TOKENS : {None}, ORCA_MAX_COST_MICROS : {None},
   with_budget : {BudgetConfigDefault},
   ORCA_CAPTURE_EXTERNAL_IO : {None, Some("1"), Some("0")},
   ORCA_BYPASS_TO_DIRECT : {None, Some("1")},
   capture_log : {None, Some("log")}]

\* the outcomes of the two appends of a call, and of the inner service
AppendOutcomes == [1..2 -> BOOLEAN]
InnerResults == {"Ok", "Unavailable"}

\* the external_io_started record of a call
ExternalIoStarted(rid) ==
  [event |-> "external_io_started", system |-> "grpc", direction |-> "client",
   scheme |-> "grpc", host |-> "unknown", port |-> 0,
   method |-> "/orca.v1.Orchestrator/StartRun", request_id |-> rid,
   body_digest_sha256 |-> Sha256(<< >>)]

\* the external_io_finished record of a call
ExternalIoFinished(rid, res, t0, t1) ==
  [event |-> "external_io_finished", request_id |-> rid,
   status |-> IF res = "Ok" THEN "ok" ELSE "error",
   duration_ms |-> SaturatingSub(t1, t0)]

\* what a step of the proxy leaves alone
ProxyUnchanged ==
  UNCHANGED << now, environ, seen_ids, last_event_id_by_run, usage_by_run,
               usage_by_run_agent, run_start_ts_by_run, policy, budget, budgets_by_run,
               writers, files, put, epoch, stores, timers, calls >>

\* ProxyCapturedChannel::call up to the future it returns: the request id, the
\* external_io_started record, and the inner call unless the capture failed
ProxyCall ==
  /\ Idle /\ NEXT_ID <= MaxWalProxy
  /\ \E io \in AppendOutcomes :
       IF IsSome(CaptureLog(environ))
       THEN /\ NEXT_ID' = WrappingAdd(WrappingAdd(NEXT_ID, 1), 1)
            /\ wal' = IF io[1]
                      THEN LogAppend(wal, WrappingAdd(NEXT_ID, 1), now,
                                     ExternalIoStarted(<< "R", NEXT_ID >>))
                      ELSE wal
            /\ req' = Some([op |-> "call", io |-> io, rid |-> << "R", NEXT_ID >>, t0 |-> now,
                            inner_called |-> ~CaptureFailed(~io[1], environ),
                            res |-> None])
            /\ resp' = IF CaptureFailed(~io[1], environ)
                       THEN Some([code |-> "FailedPrecondition"]) ELSE None
       ELSE /\ NEXT_ID' = WrappingAdd(NEXT_ID, 1)
            /\ wal' = wal
            /\ req' = Some([op |-> "call", io |-> io, rid |-> << "R", NEXT_ID >>, t0 |-> now,
                            inner_called |-> TRUE, res |-> None])
            /\ resp' = None
  /\ ProxyUnchanged

\* the future of ProxyCapturedChannel::call: the inner service answers, the
\* external_io_finished record is appended, the client gets the result
ProxyAwait ==
  /\ IsSome(req) /\ Unwrap(req).op = "call" /\ resp = None
  /\ \E res \in InnerResults :
       /\ req' = Some([Unwrap(req) EXCEPT !.res = Some(res)])
       /\ IF IsSome(CaptureLog(environ))
          THEN /\ NEXT_ID' = WrappingAdd(NEXT_ID, 1)
               /\ wal' = IF Unwrap(req).io[2]
                         THEN LogAppend(wal, NEXT_ID, now,
                                        ExternalIoFinished(Unwrap(req).rid, res,
                                                           Unwrap(req).t0, now))
                         ELSE wal
               /\ resp' = IF CaptureFailed(~Unwrap(req).io[2], environ)
                          THEN Some([code |-> "FailedPrecondition"])
                          ELSE Some([code |-> res])
          ELSE /\ UNCHANGED << NEXT_ID, wal >>
               /\ resp' = Some([code |-> res])
  /\ ProxyUnchanged

\* time passes, also while a call is in progress
ProxyTick ==
  /\ now < MaxNow
  /\ now' = now + 1
  /\ UNCHANGED << wal, NEXT_ID, environ, seen_ids, last_event_id_by_run, usage_by_run,
                  usage_by_run_agent, run_start_ts_by_run, policy, budget, budgets_by_run,
                  req, resp, writers, files, put, epoch, stores, timers, calls >>

NextProxy ==
  \/ ProxyCall
  \/ ProxyAwait
  \/ ProxyTick
  \/ Deliver

InitProxy == InitWith(ProxyEnvironments)

SpecProxy == InitProxy /\ [][NextProxy]_vars

\* capture is enabled with a sink, and the bypass flag is off or on
Capturing == CaptureEnabled(environ) /\ IsSome(environ.capture_log)
BypassOn == environ.ORCA_BYPASS_TO_DIRECT = Some("1")

\* the step starts a call whose external_io_started record cannot be appended
StartedAppendFails == Idle /\ IsSome(req') /\ Capturing /\ ~Unwrap(req').io[1]

\* the step ends a call whose external_io_finished record cannot be appended
FinishedAppendFails ==
  /\ IsSome(req) /\ resp = None /\ IsSome(resp')
  /\ Capturing /\ ~Unwrap(req).io[2]

\* C30: with capture enabled and the bypass flag off, a failed append of a
\* capture record makes the client call fail, and the outbound request is never
\* sent when its external_io_started record could not be appended; with the
\* bypass flag on the request proceeds
C30_CaptureFailsClosed ==
  [][/\ StartedAppendFails
          => IF BypassOn
             THEN Unwrap(req').inner_called /\ resp' = None
             ELSE /\ ~Unwrap(req').inner_called
                  /\ resp' = Some([code |-> "FailedPrecondition"])
                  /\ wal' = wal
     /\ FinishedAppendFails
          => IF BypassOn
             THEN Unwrap(resp').code = Unwrap(Unwrap(req').res)
             ELSE Unwrap(resp').code = "FailedPrecondition"]_vars

\* a call was refused without reaching the inner service: its
\* external_io_started record could not be appended, the bypass flag is off
C30_Witness ==
  /\ IsSome(req) /\ Unwrap(req).op = "call"
  /\ Capturing /\ ~BypassOn
  /\ ~Unwrap(req).io[1]
  /\ ~Unwrap(req).inner_called
  /\ resp = Some([code |-> "FailedPrecondition"])

\* with the bypass flag on a call went through although neither record could be
\* appended
C30_WitnessBypass ==
  /\ IsSome(req) /\ Unwrap(req).op = "call"
  /\ Capturing /\ BypassOn
  /\ ~Unwrap(req).io[1] /\ ~Unwrap(req).io[2]
  /\ Unwrap(req).inner_called
  /\ resp = Some([code |-> "Ok"])

\* a call failed after the inner service had answered Ok: its
\* external_io_finished record could not be appended
C30_WitnessFinished ==
  /\ IsSome(req) /\ Unwrap(req).op = "call"
  /\ Capturing /\ ~BypassOn
  /\ Unwrap(req).io[1] /\ ~Unwrap(req).io[2]
  /\ Unwrap(req).res = Some("Ok")
  /\ resp = Some([code |-> "FailedPrecondition"])

----------------------------------------------------------------------------
(* Concurrent calls of submit_task.  The service is Clone + Send + Sync and  *)
(* tonic runs each request as a task of the multi-threaded runtime, so the *)
(* handlers of two requests interleave at every access to the shared state.*)
(* A call is a record of `calls`: pc is its position in submit_task, env   *)
(* the envelope it carries on, status the state of the budget it found, id *)
(* the event id it took last, held the DashMap guards it holds, code its   *)
(* gRPC status.  An append is one step here: the tearing of lines is the   *)
(* subject of the appenders specification.                                 *)

\* a call starts only while NEXT_ID is at most this
MaxWalCalls == 3

\* two envelopes, stating no usage or four tokens
CallEnvelopes ==
  {Envelope(id, "agent_task", CleanPayload, 0, 1, u) :
     id \in EnvIds, u \in {None, Some([tokens |-> 4, cost_micros |-> 0])}}

CallSubmitTaskRequests ==
  [op : {"SubmitTask"}, authorization : {Some("tok")}, run_id : {"r1"},
   task : {Some(e) : e \in CallEnvelopes}]

CallStartRunRequests ==
  [op : {"StartRun"}, authorization : {Some("tok")}, workflow_id : {"r1"},
   initial_task : {None}, budget : {None}]

\* the guards on the entries of run_id: a Ref into budgets_by_run, the RefMut
\* `entry` into usage_by_run and the RefMut `aentry` into usage_by_run_agent
BudgetGuard(run_id) == << "budgets_by_run", run_id >>
UsageGuards(run_id) == {<< "usage_by_run", run_id >>, << "usage_by_run_agent", run_id >>}

\* the call of task t goes on as c and leaves the shared state s
CallStep(t, c, s) ==
  /\ calls' = [calls EXCEPT ![t] = c]
  /\ wal' = s.wal
  /\ NEXT_ID' = s.NEXT_ID
  /\ seen_ids' = s.seen_ids
  /\ usage_by_run' = s.usage_by_run
  /\ usage_by_run_agent' = s.usage_by_run_agent
  /\ run_start_ts_by_run' = s.run_start_ts_by_run
  /\ budget' = s.budget
  /\ budgets_by_run' = s.budgets_by_run
  /\ UNCHANGED << now, environ, last_event_id_by_run, policy, req, resp,
                  writers, files, put, epoch, stores, timers >>

\* the call returns with its status
CallDone(c, code) == [c EXCEPT !.pc = "done", !.code = code, !.held = {}]

\* the call goes to position pc
CallAt(c, pc) == [c EXCEPT !.pc = pc]

\* a SubmitTask request reaches the handler on task t
CallSubmitTask(t) ==
  /\ t \notin DOMAIN calls
  /\ NEXT_ID <= MaxWalCalls
  /\ \E r \in CallSubmitTaskRequests :
       calls' = MapInsert(calls, t, [pc |-> "check", r |-> r, env |-> Unwrap(r.task),
                                     status |-> "Within", id |-> 0, held |-> {},
                                     code |-> "Ok"])
  /\ UNCHANGED << wal, NEXT_ID, now, environ, seen_ids, last_event_id_by_run, usage_by_run,
                  usage_by_run_agent, run_start_ts_by_run, policy, budget, budgets_by_run,
                  req, resp, writers, files, put, epoch, stores, timers >>

\* submit_task, lines 329-338: check_auth, the envelope checks and the test of
\* seen_ids, which answers a known id at once
CallCheckVerdict(t, c, chk) ==
  IF ~CheckAuth(c.r.authorization) THEN CallStep(t, CallDone(c, "Unauthenticated"), Service)
  ELSE IF chk # "Ok" THEN CallStep(t, CallDone(c, chk), Service)
  ELSE IF SeenContains(Service, c.env.id) THEN CallStep(t, CallDone(c, "Ok"), Service)
  ELSE CallStep(t, CallAt(c, "policy"), Service)

CallCheck(t) ==
  /\ t \in DOMAIN calls /\ calls[t].pc = "check"
  /\ CallCheckVerdict(t, calls[t], RejectIfExpiredOrVersion(calls[t].env))

\* submit_task, lines 341-358: the pre-submit decision, its audit record, and
\* the denial or the envelope the policy left
CallPolicyDecided(t, c, decision) ==
  IF decision.kind = "Deny"
  THEN CallStep(t, CallDone(c, "PermissionDenied"),
                AppendPolicyAudit(Service, IoOk, "pre_submit_task", Some(c.r.run_id), None,
                                  c.env, decision))
  ELSE CallStep(t, [c EXCEPT !.pc = "budget",
                             !.env = IF decision.kind = "Modify" /\ IsSome(decision.payload)
                                     THEN Unwrap(decision.payload) ELSE @],
                AppendPolicyAudit(Service, IoOk, "pre_submit_task", Some(c.r.run_id), None,
                                  c.env, decision))

CallPolicy(t) ==
  /\ t \in DOMAIN calls /\ calls[t].pc = "policy"
  /\ CallPolicyDecided(t, calls[t], PreSubmitTask(policy, calls[t].env))

\* submit_task, lines 370-386 and 425-435: the usage is added to the manager of
\* the run, reached through a guard of budgets_by_run, or to the shared one, and
\* the state of the budget is read; the guard lives to the end of the `if let`
CallBudgetStatus(t, c, s, status) ==
  IF status = "Within" THEN CallStep(t, CallAt(c, "usage"), s)
  ELSE CallStep(t, [c EXCEPT !.pc = "budget_id", !.status = status,
                             !.held = IF c.r.run_id \in DOMAIN s.budgets_by_run
                                      THEN {BudgetGuard(c.r.run_id)} ELSE {}],
                s)

CallBudgetAdded(t, c, s) == CallBudgetStatus(t, c, s, Status(BudgetOf(s, c.r)))

CallBudget(t) ==
  /\ t \in DOMAIN calls /\ calls[t].pc = "budget"
  /\ CallBudgetAdded(t, calls[t], BudgetAdd(Service, calls[t].r, calls[t].env))

\* orca_core::ids::next_monotonic_id(), the first argument of an append: the
\* id is taken before the append is called
CallNextId(t, c, pc) ==
  CallStep(t, [c EXCEPT !.pc = pc, !.id = NEXT_ID],
           [Service EXCEPT !.NEXT_ID = WrappingAdd(@, 1)])

\* self.log.append(id, now_ms(), &evt) with the id the call took
CallAppend(t, c, evt) ==
  CallStep(t, c, [Service EXCEPT !.wal = LogAppend(@, c.id, now, evt)])

CallTakeId(t) ==
  /\ t \in DOMAIN calls
  /\ \/ calls[t].pc = "budget_id" /\ CallNextId(t, calls[t], "budget_append")
     \/ calls[t].pc = "usage_id" /\ CallNextId(t, calls[t], "usage_append")
     \/ calls[t].pc = "enqueue_id" /\ CallNextId(t, calls[t], "enqueue_append")

\* the payload of the event `match status` appends
BudgetEventPayload(run_id, status) ==
  IF status = "Exceeded" THEN [event |-> "budget_exceeded", run_id |-> Some(run_id)]
  ELSE [event |-> "budget_warning", run_id |-> Some(run_id),
        level |-> IF status = "Warning90" THEN "90" ELSE "80"]

\* submit_task, lines 387-423 and 436-472: the event of the budget state is
\* appended, still under the guard of budgets_by_run if the run has a manager;
\* Exceeded ends the call
CallBudgetAppend(t) ==
  /\ t \in DOMAIN calls /\ calls[t].pc = "budget_append"
  /\ CallAppend(t,
                IF calls[t].status = "Exceeded"
                THEN CallDone(calls[t], "ResourceExhausted")
                ELSE [calls[t] EXCEPT !.pc = "usage", !.held = {}],
                BudgetEventPayload(calls[t].r.run_id, calls[t].status))

\* a guard of gs is held by a call of another task
HeldByOther(t, gs) ==
  \E u \in DOMAIN calls \ {t} : calls[u].held \cap gs # {}

\* submit_task, lines 480-488: `entry` and `aentry` lock the entries of the run
\* in usage_by_run and usage_by_run_agent and the totals are added to
CallUsage(t) ==
  /\ t \in DOMAIN calls /\ calls[t].pc = "usage"
  /\ ~HeldByOther(t, UsageGuards(calls[t].r.run_id))
  /\ CallStep(t, [calls[t] EXCEPT !.pc = "usage_id",
                                  !.held = UsageGuards(calls[t].r.run_id)],
              UsageTotals(Service, calls[t].r, calls[t].env,
                          TokensInc(calls[t].env), CostInc(calls[t].env)))

\* submit_task, lines 489-501: usage_update is appended with the totals read
\* through the guards, which are dropped at the end of the block
CallUsageAppend(t) ==
  /\ t \in DOMAIN calls /\ calls[t].pc = "usage_append"
  /\ CallAppend(t, [calls[t] EXCEPT !.pc = "seen", !.held = {}],
                [event |-> "usage_update", run_id |-> Some(calls[t].r.run_id),
                 tokens |-> usage_by_run[calls[t].r.run_id][1],
                 cost_micros |-> usage_by_run[calls[t].r.run_id][2],
                 elapsed_ms |-> ElapsedMs(Service, calls[t].r.run_id)])

\* submit_task, line 504: self.seen_ids.insert(env.id.clone())
CallSeenInsert(t) ==
  /\ t \in DOMAIN calls /\ calls[t].pc = "seen"
  /\ CallStep(t, CallAt(calls[t], "enqueue_id"),
              [Service EXCEPT !.seen_ids = @ \cup {calls[t].env.id}])

\* submit_task, lines 507-525: task_enqueued is appended
CallEnqueueAppend(t) ==
  /\ t \in DOMAIN calls /\ calls[t].pc = "enqueue_append"
  /\ CallAppend(t, CallAt(calls[t], "post"),
                RedactEventPayload([event |-> "task_enqueued",
                                    run_id |-> Some(calls[t].r.run_id),
                                    envelope |-> Some(calls[t].env)]))

\* submit_task, lines 527-565: the post-submit hook, the summary and the return
CallPostDone(t, c, out) == CallStep(t, CallDone(c, out.code), out.s)

CallPost(t) ==
  /\ t \in DOMAIN calls /\ calls[t].pc = "post"
  /\ CallPostDone(t, calls[t], SubmitPost(Service, calls[t].r, calls[t].env, IoOk))

\* the response of the call is handed to the client and the task is free again
CallReturn(t) ==
  /\ t \in DOMAIN calls /\ calls[t].pc = "done"
  /\ calls' = [u \in DOMAIN calls \ {t} |-> calls[u]]
  /\ UNCHANGED << wal, NEXT_ID, now, environ, seen_ids, last_event_id_by_run, usage_by_run,
                  usage_by_run_agent, run_start_ts_by_run, policy, budget, budgets_by_run,
                  req, resp, writers, files, put, epoch, stores, timers >>

\* start_run, served while no call of submit_task is under way
HandleCallsStartRun ==
  /\ DOMAIN calls = {}
  /\ NEXT_ID <= MaxWalCalls
  /\ Handle(CallStartRunRequests)

NextCalls ==
  \/ LoadPermissivePolicy
  \/ HandleCallsStartRun
  \/ Deliver
  \/ \E t \in Tasks :
       \/ CallSubmitTask(t)
       \/ CallCheck(t)
       \/ CallPolicy(t)
       \/ CallBudget(t)
       \/ CallTakeId(t)
       \/ CallBudgetAppend(t)
       \/ CallUsage(t)
       \/ CallUsageAppend(t)
       \/ CallSeenInsert(t)
       \/ CallEnqueueAppend(t)
       \/ CallPost(t)
       \/ CallReturn(t)

SpecCalls == Init /\ [][NextCalls]_vars

----------------------------------------------------------------------------
(* C31: one task_enqueued per envelope id under concurrent submissions *)

\* C31: whatever the interleaving of the calls of SubmitTask in one process, the
\* log holds at most one task_enqueued record per envelope id.
C31_AtMostOneEnqueued ==
  \A id \in EnvIds : Cardinality(TaskEnqueued(Payloads(wal), id)) <= 1

\* the calls of two tasks are both past the test of seen_ids with the same
\* envelope id, and neither has inserted it yet
C31_BothPastCheck ==
  \E t \in DOMAIN calls : \E u \in DOMAIN calls \ {t} :
    /\ calls[t].env.id = calls[u].env.id
    /\ calls[t].pc \in {"policy", "budget", "usage", "usage_id", "usage_append", "seen"}
    /\ calls[u].pc \in {"policy", "budget", "usage", "usage_id", "usage_append", "seen"}
    /\ calls[t].env.id \notin seen_ids

----------------------------------------------------------------------------
(* Appends that fail: the handlers run with every outcome of their appends *)

\* a request of the fault scenarios is served only while NEXT_ID is at most this
MaxWalFaults == 5
\* and only while the log has fewer lines than this
MaxLinesFaults == 2
\* the appends of one call that may fail
MaxFaultIo == 4

\* the outcomes of the appends of one call: any outcome for the first n
IoSchedules(n) ==
  {[k \in 1..MaxIo |-> IF k <= n THEN f[k] ELSE "ok"] : f \in [1..n -> IoOutcomes]}

FaultEnvelopes == {Envelope(id, "agent_task", CleanPayload, 0, 1, None) : id \in EnvIds}

\* the requests carry the outcomes of the appends their handler will attempt
FaultStartRunRequests ==
  [op : {"StartRun"}, authorization : {Some("tok")}, workflow_id : {"r1"},
   initial_task : {None}, budget : {None}, io : IoSchedules(MaxFaultIo - 1)]
  \cup [op : {"StartRun"}, authorization : {Some("bad")}, workflow_id : {"r1"},
        initial_task : {None}, budget : {None}, io : {IoOk}]

FaultSubmitTaskRequests ==
  [op : {"SubmitTask"}, authorization : {Some("tok")}, run_id : {"r1"},
   task : {Some(e) : e \in FaultEnvelopes}, io : IoSchedules(MaxFaultIo)]
  \cup [op : {"SubmitTask"}, authorization : {Some("bad")}, run_id : {"r1"},
        task : {Some(e) : e \in FaultEnvelopes}, io : {IoOk}]

\* the handler has returned out after out.s.k appends: r.io says how these
\* ended and nothing else
ServedWithFaults(r, out) ==
  /\ \A k \in out.s.k + 1 .. MaxIo : r.io[k] = "ok"
  /\ Finish(r, out)

\* a request of the set R arrives and is served, its appends ending as r.io says
HandleWithFaults(R) ==
  /\ Idle
  /\ NEXT_ID <= MaxWalFaults /\ Lines(wal) < MaxLinesFaults
  /\ \E r \in R : ServedWithFaults(r, Dispatch(r, r.io))

HandleFaultsStartRun == HandleWithFaults(FaultStartRunRequests)
HandleFaultsSubmitTask == HandleWithFaults(FaultSubmitTaskRequests)

NextFaults ==
  \/ LoadPermissivePolicy
  \/ HandleFaultsStartRun
  \/ HandleFaultsSubmitTask
  \/ Deliver

SpecFaults == Init /\ [][NextFaults]_vars

----------------------------------------------------------------------------
(* C32: an accepted envelope is in the log *)

\* the bytes of the file hold no line that was left without its newline: every
\* line read_range finds is a record
Readable(file) == ReadRange(file, 0, U64Max).ok

\* C32: whenever SubmitTask answers accepted = true for an envelope id, the log
\* holds a task_enqueued record for that id, whatever successes, rejections and
\* failed appends came before.
C32_AcceptedIsEnqueued ==
  [][SubmitsEnvelope /\ Unwrap(resp').code = "Ok"
     => TaskEnqueued(Payloads(wal'), Task.id) # {}]_vars

\* a SubmitTask was answered accepted = true for an id of which the log, every
\* line of it a record, holds no task_enqueued
C32_AcceptedWithoutRecord ==
  /\ Served("SubmitTask", "Ok")
  /\ Readable(wal)
  /\ TaskEnqueued(Payloads(wal), Unwrap(Unwrap(req).task).id) = {}

----------------------------------------------------------------------------
(* C33: a call that fails leaves the shared state alone *)

\* the step serves a StartRun or a SubmitTask and answers with an error
AnswersError ==
  /\ Handled("StartRun") \/ Handled("SubmitTask")
  /\ Unwrap(resp').code # "Ok"

\* the budgets, the usage totals, the start timestamps and the set of seen ids are
\* as they were
SharedStateKept ==
  /\ budget' = budget /\ budgets_by_run' = budgets_by_run
  /\ usage_by_run' = usage_by_run /\ usage_by_run_agent' = usage_by_run_agent
  /\ run_start_ts_by_run' = run_start_ts_by_run
  /\ seen_ids' = seen_ids

\* C33: a StartRun or SubmitTask that returns an error leaves the per-run budget
\* map and its counters, the usage totals, the run start timestamps and the set
\* of seen ids as they were before the call.
C33_ErrorChangesNothing == [][AnswersError => SharedStateKept]_vars

\* the errors of the checks made before anything is written, and the denial by
\* the policy, leave the shared state as it was
C33_RejectionChangesNothing ==
  [][AnswersError /\ Unwrap(resp').code \notin {"Internal", "ResourceExhausted"}
     => SharedStateKept]_vars

\* a StartRun failed with Internal on an empty log, and has left the run a
\* budget manager and a start timestamp
C33_FailedStartRunLeftBudget ==
  /\ Served("StartRun", "Internal")
  /\ wal = << >>
  /\ "r1" \in DOMAIN budgets_by_run
  /\ "r1" \in DOMAIN run_start_ts_by_run

\* a SubmitTask failed with Internal and its usage is in the totals, although
\* the log is empty
C33_FailedSubmitLeftUsage ==
  /\ Served("SubmitTask", "Internal")
  /\ wal = << >>
  /\ "r1" \in DOMAIN usage_by_run /\ usage_by_run["r1"][1] > 0

----------------------------------------------------------------------------
(* C34: the order of event ids in the log *)

\* the ids of the records of a file, in the order of its lines
RecordIds(file) ==
  [i \in 1..Len(ReadRange(file, 0, U64Max).recs) |-> ReadRange(file, 0, U64Max).recs[i].id]

StrictlyIncreasing(ids) == \A i \in 1..Len(ids) - 1 : ids[i] < ids[i + 1]

\* C34: within one process the records of the log are in strictly increasing
\* order of event id, also when several tasks append concurrently.
C34_IdsIncrease == StrictlyIncreasing(RecordIds(wal))

\* two calls have each taken an id and written nothing with it yet: the one that
\* appends first decides the order of the two records
C34_TwoIdsTaken ==
  \E t \in DOMAIN calls : \E u \in DOMAIN calls \ {t} :
    /\ calls[t].pc \in {"budget_append", "usage_append", "enqueue_append"}
    /\ calls[u].pc \in {"budget_append", "usage_append", "enqueue_append"}
    /\ calls[t].id < calls[u].id

----------------------------------------------------------------------------
(* Concurrent calls of BlobStore::put_reader on one store.  A call is a      *)
(* record of `calls`: bytes is the content, compressed_tmp the temp file it *)
(* created, todo the buffers still to be written to its handle `out`, off   *)
(* the offset of the handle, fd the path that names the file the handle is  *)
(* open on (None once that file has no name left).                          *)

\* a byte of a hole, read where nothing was written below the end of a file
ZeroField == [f |-> "zero", v |-> 0]

\* write_all(buf) on a handle at offset off of a file with the bytes file: the
\* bytes from off on are replaced, a gap below off reads as zeros
WriteAt(file, off, buf) ==
  [i \in 1..(IF Len(file) > off + Len(buf) THEN Len(file) ELSE off + Len(buf)) |->
     IF i > off /\ i <= off + Len(buf) THEN buf[i - off]
     ELSE IF i <= Len(file) THEN file[i]
     ELSE ZeroField]

\* what the calls of put_reader leave alone
PutsUnchanged ==
  UNCHANGED << wal, NEXT_ID, now, environ, seen_ids, last_event_id_by_run, usage_by_run,
               usage_by_run_agent, run_start_ts_by_run, policy, budget, budgets_by_run,
               req, resp, writers, put, epoch, stores, timers >>

\* the call of task t goes on as c and leaves the directory fs
PutsStep(t, c, fs) ==
  /\ calls' = MapInsert(calls, t, c)
  /\ files' = fs
  /\ PutsUnchanged

\* the call returns
PutsDone(c, code) == [c EXCEPT !.pc = "done", !.code = code]

\* put_reader, lines 336-353: the compressed temp file is created under a name
\* that is free
PutsStart(t) ==
  /\ t \notin DOMAIN calls
  /\ \E bytes \in Blobs :
       PutsStep(t, [pc |-> "compress", bytes |-> bytes,
                    compressed_tmp |-> TmpPath(FirstFree(files, 0)),
                    digest |-> Sha256(bytes), todo |-> << >>, off |-> 0, fd |-> None,
                    code |-> "Ok"],
                MapInsert(files, TmpPath(FirstFree(files, 0)), << >>))

\* put_reader, lines 354-376: the input is hashed and compressed into the temp file
PutsCompress(t) ==
  /\ t \in DOMAIN calls /\ calls[t].pc = "compress"
  /\ PutsStep(t, [calls[t] EXCEPT !.pc = "exists"],
              [files EXCEPT ![calls[t].compressed_tmp] = Compress(calls[t].bytes)])

\* put_reader, lines 379-382: the final path exists and the digest is returned
PutsExists(t) ==
  /\ t \in DOMAIN calls /\ calls[t].pc = "exists"
  /\ PathFor(calls[t].digest) \in DOMAIN files
  /\ PutsStep(t, PutsDone(calls[t], "Ok"), files)

\* put_reader, lines 384-396: the final path does not exist; File::create opens
\* the .incomplete file of the digest, truncating the file of that name if
\* there is one
PutsCreate(t) ==
  /\ t \in DOMAIN calls /\ calls[t].pc = "exists"
  /\ PathFor(calls[t].digest) \notin DOMAIN files
  /\ PutsStep(t, [calls[t] EXCEPT !.pc = "write", !.off = 0,
                                  !.fd = Some(IncompletePath(calls[t].digest)),
                                  !.todo = FileWrites(KeyBytes, calls[t].digest,
                                                      files[calls[t].compressed_tmp])],
              MapInsert(files, IncompletePath(calls[t].digest), << >>))

\* put_reader, lines 398-440: one write_all on the handle, at its offset
PutsWrite(t) ==
  /\ t \in DOMAIN calls /\ calls[t].pc = "write" /\ calls[t].todo # << >>
  /\ PutsStep(t, [calls[t] EXCEPT !.todo = Tail(@), !.off = @ + Len(Head(calls[t].todo))],
              IF IsSome(calls[t].fd)
              THEN [files EXCEPT ![Unwrap(calls[t].fd)] =
                                    WriteAt(@, calls[t].off, Head(calls[t].todo))]
              ELSE files)

\* put_reader, line 441: out.sync_all(), and the handle is dropped
PutsSync(t) ==
  /\ t \in DOMAIN calls /\ calls[t].pc = "write" /\ calls[t].todo = << >>
  /\ PutsStep(t, [calls[t] EXCEPT !.pc = "rename", !.fd = None], files)

\* the handles after fs::rename(from, to): a handle on the file that was named
\* `from` is on the file now named `to`, a handle on the file that was named
\* `to` is on a file without a name
Renamed(cs, from, to) ==
  [u \in DOMAIN cs |->
     IF cs[u].fd = Some(from) THEN [cs[u] EXCEPT !.fd = Some(to)]
     ELSE IF cs[u].fd = Some(to) THEN [cs[u] EXCEPT !.fd = None]
     ELSE cs[u]]

\* put_reader, lines 444-462: the rename, the removal of the compressed temp
\* file, Ok(digest)
PutsRename(t) ==
  /\ t \in DOMAIN calls /\ calls[t].pc = "rename"
  /\ IncompletePath(calls[t].digest) \in DOMAIN files
  /\ calls' = Renamed([calls EXCEPT ![t] = PutsDone(@, "Ok")],
                      IncompletePath(calls[t].digest), PathFor(calls[t].digest))
  /\ files' = RemoveFiles(Rename(files, IncompletePath(calls[t].digest),
                                 PathFor(calls[t].digest)),
                          {calls[t].compressed_tmp})
  /\ PutsUnchanged

\* put_reader, line 453: there is no .incomplete file to rename, and the error
\* of fs::rename is returned
PutsRenameFails(t) ==
  /\ t \in DOMAIN calls /\ calls[t].pc = "rename"
  /\ IncompletePath(calls[t].digest) \notin DOMAIN files
  /\ PutsStep(t, PutsDone(calls[t], "Io"), files)

NextPuts ==
  \E t \in Tasks :
    \/ PutsStart(t)
    \/ PutsCompress(t)
    \/ PutsExists(t)
    \/ PutsCreate(t)
    \/ PutsWrite(t)
    \/ PutsSync(t)
    \/ PutsRename(t)
    \/ PutsRenameFails(t)

SpecPuts == Init /\ [][NextPuts]_vars

----------------------------------------------------------------------------
(* C35: concurrent puts of the same content *)

\* every call of put_reader that has returned has returned the digest
PutsReturnDigest ==
  \A t \in DOMAIN calls : calls[t].pc = "done" => calls[t].code = "Ok"

\* a final path that exists holds a blob that get reads back whole
FinalPathsReadable ==
  \A b \in Blobs :
    PathFor(Sha256(b)) \in DOMAIN files
      => GetToWriter(files, KeyBytes, Sha256(b)) = [code |-> "Ok", bytes |-> b]

\* C35: when two writers put the same content concurrently, both return the
\* digest, and once the final path exists it holds a complete, readable blob at
\* all times: neither writer truncates or corrupts the file of the other.
C35_ConcurrentPutsSafe == PutsReturnDigest /\ FinalPathsReadable

\* two calls with the same content have both opened the .incomplete file of the
\* digest, and the second File::create has emptied what the first had written
C35_TruncatedByOther ==
  \E t \in DOMAIN calls : \E u \in DOMAIN calls \ {t} :
    /\ calls[t].bytes = calls[u].bytes
    /\ calls[t].pc = "write" /\ calls[t].off > 0
    /\ calls[u].pc = "write" /\ calls[u].off = 0
    /\ calls[t].fd = calls[u].fd /\ IsSome(calls[t].fd)
    /\ files[Unwrap(calls[t].fd)] = << >>

\* the final path exists and get fails on it, while a call is still writing
C35_FinalPathUnreadable ==
  \E t \in DOMAIN calls :
    /\ calls[t].pc = "write"
    /\ calls[t].fd = Some(PathFor(calls[t].digest))
    /\ GetToWriter(files, KeyBytes, calls[t].digest).code # "Ok"

\* a call has returned an error although the blob is in the store
C35_ErrorReturned ==
  \E t \in DOMAIN calls :
    /\ calls[t].pc = "done" /\ calls[t].code = "Io"
    /\ GetToWriter(files, KeyBytes, calls[t].digest) = [code |-> "Ok", bytes |-> calls[t].bytes]

----------------------------------------------------------------------------
(* C36: no IO under a guard of the shared maps *)

\* the step is an append to the log made by the call of task t
AppendsBy(t) ==
  /\ t \in DOMAIN calls /\ t \in DOMAIN calls'
  /\ calls'[t] # calls[t]
  /\ wal' # wal

\* C36: no append to the log, and no other IO, is made while a task holds a lock
\* on an entry of the run index, of the seen set or of the per-run budget map.
C36_NoAppendUnderGuard ==
  [][\A t \in Tasks : AppendsBy(t) => calls[t].held = {}]_vars

\* the appends of the policy audit and of task_enqueued are made with no guard held
C36_NoGuardOutsideBudgetAndUsage ==
  [][\A t \in Tasks :
       AppendsBy(t) /\ calls[t].pc \notin {"budget_append", "usage_append"}
         => calls[t].held = {}]_vars

\* a call is about to append usage_update under the guards of the usage entries
\* of the run, and the call of another task waits for them
C36_WaitsForAppend ==
  \E t \in DOMAIN calls : \E u \in DOMAIN calls \ {t} :
    /\ calls[t].pc = "usage_append"
    /\ calls[t].held = UsageGuards(calls[t].r.run_id)
    /\ calls[u].pc = "usage"
    /\ HeldByOther(u, UsageGuards(calls[u].r.run_id))

\* a call is about to append the event of the budget state under the guard of
\* the budget manager of the run
C36_BudgetEventUnderGuard ==
  \E t \in DOMAIN calls :
    /\ calls[t].pc = "budget_append"
    /\ calls[t].held = {BudgetGuard(calls[t].r.run_id)}

----------------------------------------------------------------------------
(* C37: the retried appends *)

\* the step serves a call that gets to its retried append: a StartRun let through
\* by check_auth, or a SubmitTask that records its envelope id as seen
ReachesRetry ==
  \/ Handled("StartRun") /\ Unwrap(resp').code \in {"Ok", "Internal"}
  \/ SubmitsEnvelope /\ seen_ids' # seen_ids

\* the appends the step attempted: one id is taken per attempt
Attempted == NEXT_ID' - NEXT_ID

\* the attempts of the step that failed
FailedAttempts == {k \in 1..Attempted : Unwrap(req').io[k] # "ok"}

\* the records of the retried event the step left in the log, as read_range finds
\* them in the bytes the step added
RetriedRecords ==
  IF Unwrap(req').op = "StartRun" THEN Events(Appended, "start_run")
  ELSE TaskEnqueued(Appended, Task.id)

\* the retry loop of the step made at most three attempts, answered Internal only
\* after three failures and Ok only after an attempt that succeeded
RetryBounded ==
  /\ Unwrap(resp').code = "Ok"
       => Cardinality(FailedAttempts) <= 2 /\ Unwrap(req').io[Attempted] = "ok"
  /\ Unwrap(resp').code = "Internal"
       => FailedAttempts = (Attempted - 2)..Attempted /\ Attempted >= 3
  /\ Unwrap(resp').code \in {"Ok", "Internal"}

\* C37: a failing append of task_enqueued or start_run is attempted at most three
\* times; the RPC returns Internal only when every attempt failed; and when an
\* attempt succeeds the record is in the log exactly once.
C37_RetriedAppendOnce ==
  [][ReachesRetry
     => /\ RetryBounded
        /\ Unwrap(resp').code = "Ok" => Cardinality(RetriedRecords) = 1]_vars

\* the same, with the record in the log exactly once when no failed attempt of
\* the call left bytes in the file
C37_RetriedAppendOnceUnlessTorn ==
  [][ReachesRetry
     => /\ RetryBounded
        /\ Unwrap(resp').code = "Ok" /\ (\A k \in FailedAttempts : Unwrap(req').io[k] = "fail")
             => Cardinality(RetriedRecords) = 1]_vars

\* a SubmitTask was accepted on the third attempt of its append, after two
\* attempts that wrote nothing
C37_ThirdAttemptSucceeds ==
  /\ Served("SubmitTask", "Ok")
  /\ \E k \in 1..MaxFaultIo - 2 :
       /\ Unwrap(req).io[k] = "fail" /\ Unwrap(req).io[k + 1] = "fail"
       /\ Unwrap(req).io[k + 2] = "ok"
  /\ Cardinality(TaskEnqueued(Payloads(wal), Unwrap(Unwrap(req).task).id)) = 1

\* a StartRun was answered Ok after an attempt that left its line without a
\* newline, and the log cannot be read any more
C37_RetryAfterTornLine ==
  /\ Served("StartRun", "Ok")
  /\ Unwrap(req).io[1] = "torn" /\ Unwrap(req).io[2] = "ok"
  /\ ~Readable(wal)

----------------------------------------------------------------------------
(* The producer task of stream_events and the consumer of its channel.  A    *)
(* stream is a record of `calls`: r is the request, recs the vector read    *)
(* from the log, i the position of the loop in it, sent the counter of the  *)
(* loop, pending the item of the send the task is suspended in, chan the    *)
(* items in the channel, rx_open whether the receiver is still there.       *)

\* the capacity of the channel, tokio::sync::mpsc::channel(32), scaled down
CHANNEL_CAPACITY == 1
\* the streams opened
MaxStreams == 1
\* a request that writes is served only while NEXT_ID is at most this
MaxWalProducers == 2

StreamTasks == 1..MaxStreams

\* the first attempt of the start_run append may fail, also after writing its line
ProducersStartRunRequests ==
  [op : {"StartRun"}, authorization : {Some("tok")}, workflow_id : {"r1"},
   initial_task : {None}, budget : {None}, io : IoSchedules(1)]

ProducersSubmitTaskRequests ==
  [op : {"SubmitTask"}, authorization : {Some("tok")}, run_id : {"r1"},
   task : {Some(Envelope("e1", "agent_task", CleanPayload, 0, 1, None))}, io : {IoOk}]

\* the requests of the streams: either run, with and without the filters
ProducersStreamRequests ==
  [op : {"StreamEvents"}, authorization : {Some("tok")}, run_id : {"r1", "r2"},
   start_event_id : {0}, since_ts_ms : {0, 1}, max_events : {0, 1}]

HandleProducersWrite ==
  /\ Idle
  /\ NEXT_ID <= MaxWalProducers
  /\ \E r \in ProducersStartRunRequests \cup ProducersSubmitTaskRequests :
       ServedWithFaults(r, Dispatch(r, r.io))

\* what the streams leave alone
ProducersUnchanged ==
  UNCHANGED << wal, NEXT_ID, now, environ, seen_ids, last_event_id_by_run, usage_by_run,
               usage_by_run_agent, run_start_ts_by_run, policy, budget, budgets_by_run,
               req, resp, writers, files, put, epoch, stores, timers >>

\* the stream of task t goes on as c
StreamStep(t, c) == calls' = MapInsert(calls, t, c) /\ ProducersUnchanged

\* stream_events, lines 571-577 and 633: an authenticated request gets a channel
\* and a spawned producer, and the receiver is handed to the client
StreamSpawn(t) ==
  /\ t \notin DOMAIN calls
  /\ \E r \in ProducersStreamRequests :
       /\ CheckAuth(r.authorization)
       /\ StreamStep(t, [pc |-> "read", r |-> r, recs |-> << >>, i |-> 1, sent |-> 0,
                         pending |-> None, chan |-> << >>, rx_open |-> TRUE])

\* the producer, lines 579-583 and 625-629: read_range(start_id, u64::MAX); on an
\* error the one error item is to be sent
ProducerReadDone(t, c, read) ==
  IF read.ok THEN StreamStep(t, [c EXCEPT !.pc = "loop", !.recs = read.recs])
  ELSE StreamStep(t, [c EXCEPT !.pc = "send", !.pending = Some([err |-> "Internal"])])

ProducerRead(t) ==
  /\ t \in DOMAIN calls /\ calls[t].pc = "read"
  /\ ProducerReadDone(t, calls[t], ReadRange(wal, calls[t].r.start_event_id, U64Max))

\* the producer, lines 585-618: one turn of the loop up to its send
ProducerTurn(t, c) ==
  IF c.i > Len(c.recs) THEN StreamStep(t, [c EXCEPT !.pc = "done"])
  ELSE IF c.r.since_ts_ms > 0 /\ c.recs[c.i].ts_ms < c.r.since_ts_ms
  THEN StreamStep(t, [c EXCEPT !.i = @ + 1])
  ELSE IF c.r.max_events > 0 /\ c.sent >= c.r.max_events
  THEN StreamStep(t, [c EXCEPT !.pc = "done"])
  ELSE IF ~(\/ GetStr(c.recs[c.i].payload, "run_id") = Some(c.r.run_id)
            \/ GetStr(c.recs[c.i].payload, "workflow_id") = Some(c.r.run_id))
  THEN StreamStep(t, [c EXCEPT !.i = @ + 1])
  ELSE StreamStep(t, [c EXCEPT !.pc = "send",
                               !.pending = Some(StreamedEnvelope(c.recs[c.i]))])

ProducerNext(t) ==
  /\ t \in DOMAIN calls /\ calls[t].pc = "loop"
  /\ ProducerTurn(t, calls[t])

\* a faulty variant of SendOutcome: a receiver that is gone is taken for a
\* channel that is full
SendOutcomeNeverClosed(chan, rx_open) ==
  IF ~rx_open \/ Len(chan) >= CHANNEL_CAPACITY THEN "full" ELSE "ready"

\* tx.send(item).await: an error once the receiver is gone, a wait while the
\* channel is full
SendOutcome(chan, rx_open) ==
  IF ~rx_open THEN "closed"
  ELSE IF Len(chan) >= CHANNEL_CAPACITY THEN "full"
  ELSE "ready"

\* the producer, lines 619-623 and 626-628: the send returns; the loop breaks on
\* an error, the task ends after the error item
ProducerSent(t, c, outcome) ==
  /\ outcome # "full"
  /\ IF outcome = "closed" \/ "err" \in DOMAIN Unwrap(c.pending)
     THEN StreamStep(t, [c EXCEPT !.pc = "done", !.pending = None,
                                  !.chan = IF outcome = "ready"
                                           THEN Append(@, Unwrap(c.pending)) ELSE @])
     ELSE StreamStep(t, [c EXCEPT !.pc = "loop", !.pending = None,
                                  !.chan = Append(@, Unwrap(c.pending)),
                                  !.sent = @ + 1, !.i = @ + 1])

ProducerSend(t) ==
  /\ t \in DOMAIN calls /\ calls[t].pc = "send"
  /\ ProducerSent(t, calls[t], SendOutcome(calls[t].chan, calls[t].rx_open))

\* the consumer polls the ReceiverStream and gets the next item
ConsumerRecv(t) ==
  /\ t \in DOMAIN calls /\ calls[t].rx_open /\ calls[t].chan # << >>
  /\ StreamStep(t, [calls[t] EXCEPT !.chan = Tail(@)])

\* the consumer disconnects: the receiver is dropped with what the channel holds
ConsumerDrop(t) ==
  /\ t \in DOMAIN calls /\ calls[t].rx_open
  /\ StreamStep(t, [calls[t] EXCEPT !.rx_open = FALSE, !.chan = << >>])

\* the steps of the producer task
ProducerStep(t) == ProducerRead(t) \/ ProducerNext(t) \/ ProducerSend(t)

NextProducers ==
  \/ LoadPermissivePolicy
  \/ HandleProducersWrite
  \/ Deliver
  \/ \E t \in StreamTasks :
       \/ StreamSpawn(t)
       \/ ProducerRead(t)
       \/ ProducerNext(t)
       \/ ProducerSend(t)
       \/ ConsumerRecv(t)
       \/ ConsumerDrop(t)

\* the runtime polls a spawned task that can go on, and the consumer takes what
\* the channel holds as long as it has not disconnected
SpecProducers ==
  /\ Init /\ [][NextProducers]_vars
  /\ \A t \in StreamTasks : WF_vars(ProducerStep(t)) /\ WF_vars(ConsumerRecv(t))

----------------------------------------------------------------------------
(* C38: the producer of a stream terminates *)

Spawned(t) == t \in DOMAIN calls
Terminated(t) == t \in DOMAIN calls /\ calls[t].pc = "done"

\* C38: every producer task of StreamEvents eventually terminates, provided the
\* consumer keeps receiving or disconnects: it stops after max_events records, at
\* the end of the log, or at the first send that fails.
C38_ProducerTerminates == \A t \in StreamTasks : Spawned(t) ~> Terminated(t)

\* a producer has run to the end of the records and has sent more items than the
\* channel holds: it was suspended in a send until the consumer received
C38_Witness ==
  \E t \in StreamTasks :
    /\ Terminated(t)
    /\ calls[t].sent > CHANNEL_CAPACITY
    /\ calls[t].i > Len(calls[t].recs)

\* a producer has stopped at a send that failed, with records left to look at
C38_WitnessDisconnected ==
  \E t \in StreamTasks :
    /\ Terminated(t) /\ ~calls[t].rx_open
    /\ calls[t].i <= Len(calls[t].recs)

\* a producer has stopped at max_events with records left to look at
C38_WitnessMaxEvents ==
  \E t \in StreamTasks :
    /\ Terminated(t) /\ calls[t].rx_open
    /\ calls[t].r.max_events > 0 /\ calls[t].sent = calls[t].r.max_events
    /\ calls[t].i <= Len(calls[t].recs)

\* a producer has ended after the error item of a log that could not be read
C38_WitnessReadFailed ==
  \E t \in StreamTasks :
    /\ Terminated(t) /\ ~Readable(wal)
    /\ calls[t].recs = << >> /\ calls[t].sent = 0

----------------------------------------------------------------------------
(* C39: the compressed temp file of a put *)

\* C39: after any put that returns a digest, also when the final path already
\* existed, the compressed temp file it created under .tmp/ is removed.
C39_TempRemoved ==
  [][PutReturns => Unwrap(put).compressed_tmp \notin DOMAIN files']_vars

\* a put that writes the blob itself removes its compressed temp file
C39_TempRemovedAfterRename ==
  [][PutRename => Unwrap(put).compressed_tmp \notin DOMAIN files']_vars

\* a put of content the store already held has returned the digest, no put is
\* under way, and the compressed copy it made is still under .tmp/
C39_TempLeftBehind ==
  /\ put = None
  /\ IsSome(req) /\ Unwrap(req).op = "put"
  /\ IsSome(resp) /\ Unwrap(resp).code = "Ok"
  /\ \E q \in DOMAIN files : q.dir = ".tmp" /\ files[q] = Compress(Unwrap(req).bytes)


-----------------------------------------------------------------------------
(* C40: task_enqueued only for runs that were started *)

\* the start_run records of ps that name run as their workflow_id
StartRunsOf(ps, run) == {j \in Events(ps, "start_run") : ps[j].workflow_id = Some(run)}

\* C40: every task_enqueued record for a run is preceded in the log by a
\* start_run record for that run, so that a SubmitTask naming a run that was
\* never started is not accepted.
C40_EnqueuedAfterStartRun ==
  \A i \in Events(Payloads(wal), "task_enqueued") :
    \E j \in StartRunsOf(Payloads(wal), Unwrap(Payloads(wal)[i].run_id)) : j < i

\* a SubmitTask was accepted and its task_enqueued is in the log, and the log
\* has no start_run record at all
C40_EnqueuedWithoutStartRun ==
  /\ Served("SubmitTask", "Ok")
  /\ Readable(wal)
  /\ TaskEnqueued(Payloads(wal), Unwrap(Unwrap(req).task).id) # {}
  /\ Events(Payloads(wal), "start_run") = {}

\* the order the claim describes: a SubmitTask was accepted for a run whose
\* start_run record is earlier in the log
C40_StartRunThenEnqueued ==
  /\ Served("SubmitTask", "Ok")
  /\ Readable(wal)
  /\ \E i \in TaskEnqueued(Payloads(wal), Unwrap(Unwrap(req).task).id) :
       \E j \in StartRunsOf(Payloads(wal), Unwrap(req).run_id) : j < i

====
